---- MODULE Spec2Model ----
(***************************************************************************)
(* spiegel, the clipboard manager: its three user-facing state machines.   *)
(*                                                                         *)
(*  - Spec: the quick-save toolbar, the ClipToolbar component              *)
(*    (src/src/components/ClipToolbar.tsx) with its child CategoryInput    *)
(*    (src/src/components/CategoryCombobox.tsx).                           *)
(*  - SpecApp: the main window, App (src/unnamed/part_001) with the item   *)
(*    grid GridVirtualizer (src/unnamed/part_003), and the get_items calls *)
(*    and change events that travel between it and the backend.            *)
(*  - SpecFetch: the fetches of App alone: mount, change events and the   *)
(*    get_items calls, without the view state of the grid.                 *)
(*  - SpecSettings: the settings dialog (src/src/SettingsDialog.tsx) with  *)
(*    the settings state of App.                                           *)
(*  - SpecSearch: the search filter of the grid on drawn lists and queries.*)
(*  - SpecCapture: the hotkey capture of the settings dialog.              *)
(*  - SpecDelete: the delete button of the detail dialog.                  *)
(*  - SpecFilter: the category filter and the rendering of clips.          *)
(*                                                                         *)
(* Strings are sequences of one-character strings, so that trim,           *)
(* toLowerCase, startsWith, includes, split and replace are computed as    *)
(* the JavaScript code computes them.  Every action is one event handler   *)
(* followed by the React renders and effect passes it causes, run to       *)
(* quiescence; an await splits a handler into the step up to the await and *)
(* the step in which the promise settles.                                  *)
(***************************************************************************)
EXTENDS Integers, Sequences, FiniteSets, TLC

\* ------------------------------------------------------------------ bounds
\* number of clips the backend stores
MaxClips == 1
\* number of get_items calls issued
MaxFetches == 3
\* number of clip-saved / clip-deleted events in flight at once
MaxEvents == 1
\* number of delete_item calls in flight at once
MaxDeletes == 2
\* number of pending timers of testHotkey
MaxTimers == 2
\* number of keys one hotkey capture records
MaxKeys == 2
\* number of hotkey presses (capture sessions) explored
MaxSessions == 2
\* number of close_toolbar_window calls that may be in flight at once
MaxCloses == 2
\* number of submit_clip calls that may be in flight at once
MaxPending == 2
\* number of focus timers of handleBadgeClick that may be pending at once
MaxFocusTimers == 2
\* upper bound on the render/effect passes one handler can cause
Fuel == 6

\* ----------------------------------------------------------------- strings
\* the JavaScript value undefined (an absent suggested_category)
Undefined == <<"undefined">>

\* the fallback literal of handleSave
Other == <<"O", "t", "h", "e", "r">>

s_url == <<"u", "r", "l">>
s_notes == <<"n", "o", "t", "e", "s">>

\* CategoryFilters.tsx: export const categories = [...]
categories ==
  << <<"c","o","d","e","_","s","n","i","p","p","e","t">>,
     <<"t","e","c","h","n","i","c","a","l","_","a","d","v","i","c","e">>,
     <<"d","o","c","u","m","e","n","t","a","t","i","o","n">>,
     <<"u","r","l">>,
     <<"c","o","m","m","u","n","i","c","a","t","i","o","n">>,
     <<"n","o","t","e","s">>,
     <<"r","e","f","e","r","e","n","c","e">>,
     <<"c","r","e","a","t","i","v","e">>,
     <<"b","u","s","i","n","e","s","s">>,
     <<"q","u","o","t","e","s">>,
     <<"a","c","a","d","e","m","i","c">>,
     <<"e","r","r","o","r","s">>,
     <<"o","t","h","e","r">> >>

\* values of suggested_category the classification service delivers
Suggestions == {s_url, s_notes}

\* texts the user leaves in the category input after an edit
TypedValues == { <<>>, <<" ">>, <<"U">>, <<" ", "m", "y", " ">> }

\* A character is a UTF-16 code unit.  An ASCII one is written as the
\* one-character string; any other is written as the six characters \uXXXX
\* of its JavaScript escape, so that the module is ASCII only (the grave
\* accent, which a string of the module cannot hold, is \u0060).
\* The white space of ECMAScript (WhiteSpace and LineTerminator), which
\* String.prototype.trim strips and the \s of a regular expression matches:
\* U+0009..U+000D, U+0020, U+00A0, U+1680, U+2000..U+200A, U+2028, U+2029,
\* U+202F, U+205F, U+3000 and U+FEFF
WhiteSpace ==
  { " ", "\t", "\n", "\r", "\f", "",
    "\\u00A0", "\\u1680", "\\u2000", "\\u2001", "\\u2002", "\\u2003",
    "\\u2004", "\\u2005", "\\u2006", "\\u2007", "\\u2008", "\\u2009",
    "\\u200A", "\\u2028", "\\u2029", "\\u202F", "\\u205F", "\\u3000",
    "\\uFEFF" }

\* the characters of the model's strings: the white space, the printable
\* ASCII characters, U+00A1..U+00FF, the characters outside that range which
\* a case mapping of one of these yields (U+0178, U+039C, U+03BC), and the
\* zero width space U+200B, which is not white space
Char ==
  WhiteSpace \cup
  { "!", "\"", "#", "$", "%", "&", "'", "(", ")", "*", "+", ",", "-", ".",
    "/", "0", "1", "2", "3", "4", "5", "6", "7", "8", "9", ":", ";", "<",
    "=", ">", "?", "@", "A", "B", "C", "D", "E", "F", "G", "H", "I", "J",
    "K", "L", "M", "N", "O", "P", "Q", "R", "S", "T", "U", "V", "W", "X",
    "Y", "Z", "[", "\\", "]", "^", "_", "\\u0060", "a", "b", "c", "d", "e",
    "f", "g", "h", "i", "j", "k", "l", "m", "n", "o", "p", "q", "r", "s",
    "t", "u", "v", "w", "x", "y", "z", "{", "|", "}", "~" } \cup
  { "\\u00A1", "\\u00A2", "\\u00A3", "\\u00A4", "\\u00A5", "\\u00A6",
    "\\u00A7", "\\u00A8", "\\u00A9", "\\u00AA", "\\u00AB", "\\u00AC",
    "\\u00AD", "\\u00AE", "\\u00AF", "\\u00B0", "\\u00B1", "\\u00B2",
    "\\u00B3", "\\u00B4", "\\u00B5", "\\u00B6", "\\u00B7", "\\u00B8",
    "\\u00B9", "\\u00BA", "\\u00BB", "\\u00BC", "\\u00BD", "\\u00BE",
    "\\u00BF", "\\u00C0", "\\u00C1", "\\u00C2", "\\u00C3", "\\u00C4",
    "\\u00C5", "\\u00C6", "\\u00C7", "\\u00C8", "\\u00C9", "\\u00CA",
    "\\u00CB", "\\u00CC", "\\u00CD", "\\u00CE", "\\u00CF", "\\u00D0",
    "\\u00D1", "\\u00D2", "\\u00D3", "\\u00D4", "\\u00D5", "\\u00D6",
    "\\u00D7", "\\u00D8", "\\u00D9", "\\u00DA", "\\u00DB", "\\u00DC",
    "\\u00DD", "\\u00DE", "\\u00DF", "\\u00E0", "\\u00E1", "\\u00E2",
    "\\u00E3", "\\u00E4", "\\u00E5", "\\u00E6", "\\u00E7", "\\u00E8",
    "\\u00E9", "\\u00EA", "\\u00EB", "\\u00EC", "\\u00ED", "\\u00EE",
    "\\u00EF", "\\u00F0", "\\u00F1", "\\u00F2", "\\u00F3", "\\u00F4",
    "\\u00F5", "\\u00F6", "\\u00F7", "\\u00F8", "\\u00F9", "\\u00FA",
    "\\u00FB", "\\u00FC", "\\u00FD", "\\u00FE", "\\u00FF" } \cup
  { "\\u0178", "\\u039C", "\\u03BC", "\\u200B" }

\* the cased letters of Char, each upper-case letter at the index of its
\* lower-case letter
UpperChars ==
  << "A", "B", "C", "D", "E", "F", "G", "H", "I", "J", "K", "L", "M", "N",
     "O", "P", "Q", "R", "S", "T", "U", "V", "W", "X", "Y", "Z", "\\u00C0",
     "\\u00C1", "\\u00C2", "\\u00C3", "\\u00C4", "\\u00C5", "\\u00C6",
     "\\u00C7", "\\u00C8", "\\u00C9", "\\u00CA", "\\u00CB", "\\u00CC",
     "\\u00CD", "\\u00CE", "\\u00CF", "\\u00D0", "\\u00D1", "\\u00D2",
     "\\u00D3", "\\u00D4", "\\u00D5", "\\u00D6", "\\u00D8", "\\u00D9",
     "\\u00DA", "\\u00DB", "\\u00DC", "\\u00DD", "\\u00DE", "\\u0178",
     "\\u039C" >>
LowerChars ==
  << "a", "b", "c", "d", "e", "f", "g", "h", "i", "j", "k", "l", "m", "n",
     "o", "p", "q", "r", "s", "t", "u", "v", "w", "x", "y", "z", "\\u00E0",
     "\\u00E1", "\\u00E2", "\\u00E3", "\\u00E4", "\\u00E5", "\\u00E6",
     "\\u00E7", "\\u00E8", "\\u00E9", "\\u00EA", "\\u00EB", "\\u00EC",
     "\\u00ED", "\\u00EE", "\\u00EF", "\\u00F0", "\\u00F1", "\\u00F2",
     "\\u00F3", "\\u00F4", "\\u00F5", "\\u00F6", "\\u00F8", "\\u00F9",
     "\\u00FA", "\\u00FB", "\\u00FC", "\\u00FD", "\\u00FE", "\\u00FF",
     "\\u03BC" >>

\* String.prototype.toLowerCase on the characters of Char
LowerMap ==
  [c \in Char |->
     IF \E i \in 1..Len(UpperChars) : UpperChars[i] = c
     THEN LowerChars[CHOOSE i \in 1..Len(UpperChars) : UpperChars[i] = c]
     ELSE c]

\* String.prototype.toLowerCase, one character of Char
LowerChar(c) == LowerMap[c]

\* String.prototype.toLowerCase
toLowerCase(s) == [i \in 1..Len(s) |-> LowerChar(s[i])]

\* String.prototype.toUpperCase on the characters of Char, as a string: the
\* sharp s U+00DF becomes "SS", the micro sign U+00B5 becomes U+039C
UpperMap ==
  [c \in Char |->
     IF c = "\\u00DF" THEN <<"S", "S">>
     ELSE IF c = "\\u00B5" THEN <<"\\u039C">>
     ELSE IF \E i \in 1..Len(LowerChars) : LowerChars[i] = c
     THEN <<UpperChars[CHOOSE i \in 1..Len(LowerChars) : LowerChars[i] = c]>>
     ELSE <<c>>]

\* String.prototype.toUpperCase, one character of Char
UpperChar(c) == UpperMap[c]

\* String.prototype.toUpperCase
RECURSIVE toUpperCase(_)
toUpperCase(s) ==
  IF s = <<>> THEN <<>> ELSE UpperChar(Head(s)) \o toUpperCase(Tail(s))

\* c is white space
IsSpace(c) == c \in WhiteSpace

SetMin(S) == CHOOSE x \in S : \A y \in S : x <= y
SetMax(S) == CHOOSE x \in S : \A y \in S : y <= x

\* String.prototype.trim: strip white space at both ends
trim(s) ==
  LET keep == {i \in 1..Len(s) : ~IsSpace(s[i])}
  IN  IF keep = {} THEN <<>> ELSE SubSeq(s, SetMin(keep), SetMax(keep))

\* String.prototype.startsWith
startsWith(s, p) == Len(p) <= Len(s) /\ SubSeq(s, 1, Len(p)) = p

\* JavaScript truthiness of an optional string: undefined and "" are falsy
Truthy(s) == s # Undefined /\ s # <<>>

\* a || b on optional strings
OrElse(a, b) == IF Truthy(a) THEN a ELSE b

\* ------------------------------------------------------------------- state
VARIABLES
  clipData,       \* ClipToolbar: useState<ClipContext | null>(null)
  userCategory,   \* ClipToolbar: useState("")
  isSaving,       \* ClipToolbar: useState(false)
  inputValue,     \* CategoryInput: useState(value)
  isInitialized,  \* CategoryInput: useState(false)
  showInput,      \* CategoryInput: useState(false)
  focused,        \* document.activeElement === inputRef.current
  focusTimers,    \* the setTimeout(..., 0) callbacks of handleBadgeClick not yet run
  lastCall,       \* the invoke(...) issued by the latest step, command and arguments; NoCall when the step issued none
  pendingSaves,   \* submit_clip promises not yet settled
  pendingCloses,  \* close_toolbar_window promises not yet settled
  session,        \* hotkey presses so far; the clip of session k is k
  open,           \* the toolbar window is on screen
  cancelled,      \* the latest session was closed by close_toolbar_window
  lastEvent,      \* payload of the latest clip-data event delivered
  lateCat,        \* userCategory holds the suggestion of a cancelled session
  touched,        \* the user has clicked, focused or edited the input
  userTyped,      \* userCategory is the user's edit, made after lastEvent
  userEdit,       \* the text the user's latest edit of the open session left in the input; Undefined before the first edit and while no session is open
  alerted,        \* the step just taken ended in an alert(...) dialog
  \* ---- main window: App and GridVirtualizer
  mounted,        \* App has rendered and its effects have run
  store,          \* backend: the ids of the stored clips, newest first
  events,         \* backend: clip-saved / clip-deleted events in flight
  deliveries,     \* per kind: how often the event emitted last has reached the listeners of App
  calls,          \* the get_items calls issued so far, in order
  items,          \* App: useState<ClipItem[]>([])
  isLoadingItems, \* App: useState<boolean>(); FALSE also stands for undefined
  appToast,       \* the step just taken raised "Unable to fetch items"
  searchQuery,    \* GridVirtualizer: useState("")
  selectedCategories, \* GridVirtualizer: useState<string[]>([])
  clipDialogOpen, \* GridVirtualizer: dialogOpen, useState(false)
  selectedItem,   \* GridVirtualizer: useState<ClipItem | null>(null)
  isDeleting,     \* GridVirtualizer: useState(false)
  deletes,        \* the delete_item calls in flight
  deleteToast,    \* the toast of the latest handleDelete that finished
  \* ---- settings
  loadPending,    \* a get_all_settings call is in flight
  settingsOpen,   \* App: dialogOpen, useState<boolean>(false)
  globalShortcut, \* App: useState("")
  llmApiKey,      \* App: useState("")
  hasChanges,     \* App: useState(false)
  hasLlmApiKey,   \* App: useState(false)
  settingsSaving, \* SettingsDialog: isSaving, useState(false)
  isTesting,      \* SettingsDialog: useState(false)
  testResult,     \* SettingsDialog: "success", "error" or "null"
  toast,          \* the error toast raised by the step just taken
  saveCall,       \* the running saveSettings call: its await and arguments
  testCall,       \* the hotkey of the test_global_hotkey call in flight
  timers,         \* delays of the pending timers of testHotkey, oldest first
  storedHotkey,   \* backend: the setting global_hotkey
  storedApiKey,   \* backend: the setting llm_api_key
  synced,         \* the values last loaded from or saved to the backend
  tested,         \* the hotkey of the latest successful test
  isRecording,    \* useRecordHotkeys: a capture is running
  keys,           \* useRecordHotkeys: the recorded keys, in insertion order
  captureTimer    \* the 800 ms auto-finish timer is pending

\* the state of the capture toolbar window
toolbarVars == <<clipData, userCategory, isSaving, inputValue, isInitialized,
                 showInput, focused, focusTimers, lastCall, pendingSaves,
                 pendingCloses, session, open, cancelled, lastEvent, lateCat, touched,
                 userTyped, userEdit, alerted>>

\* the state of the main window: the item list and its grid
gridVars == <<searchQuery, selectedCategories, clipDialogOpen, selectedItem,
              isDeleting>>
\* the delete_item calls and their toasts
deleteVars == <<deletes, deleteToast>>
appVars == <<mounted, store, events, deliveries, calls, items, isLoadingItems, appToast,
             gridVars, deleteVars>>

\* the state of a hotkey capture
recordVars == <<isRecording, keys, captureTimer>>

\* the state of the settings dialog
settingsRest == <<settingsOpen, globalShortcut, llmApiKey, hasChanges,
                  hasLlmApiKey, settingsSaving, isTesting, testResult, toast,
                  saveCall, testCall, timers, storedHotkey, storedApiKey,
                  synced, tested, recordVars>>
settingsVars == <<loadPending, settingsRest>>

vars == <<toolbarVars, appVars, settingsVars>>

\* clipData === null: no clip, and clipData?.suggested_category is undefined
NullClipData == [suggested_category |-> Undefined, clip |-> 0]

\* no command has been invoked yet
NoCall == [cmd |-> "none", userCategory |-> Undefined, clipJson |-> 0]

\* the React state both components render from
View ==
  [clipData |-> clipData, userCategory |-> userCategory,
   isSaving |-> isSaving, inputValue |-> inputValue,
   isInitialized |-> isInitialized, showInput |-> showInput,
   focused |-> focused]

\* the aiSuggestion prop: clipData?.suggested_category
aiSuggestion(st) == st.clipData.suggested_category

\* ------------------------------------------------- React renders and effects
\* ClipToolbar re-renders (and hands CategoryInput a new onChange closure)
\* when one of its own state variables changed
ParentRendered(p, c) ==
  \/ p.clipData # c.clipData
  \/ p.userCategory # c.userCategory
  \/ p.isSaving # c.isSaving

\* CategoryCombobox.tsx:32-38, deps [aiSuggestion, isInitialized, value,
\* onChange].
\* p is the previous render, c the render whose closure the effect reads,
\* acc the state the queued updates are applied to.
InitSuggestionEffect(p, c, acc) ==
  IF /\ ParentRendered(p, c) \/ p.isInitialized # c.isInitialized
     /\ Truthy(aiSuggestion(c))
     /\ ~c.isInitialized
     /\ ~Truthy(c.userCategory)
  THEN [acc EXCEPT !.inputValue = aiSuggestion(c),
                   !.userCategory = aiSuggestion(c),
                   !.isInitialized = TRUE]
  ELSE acc

\* CategoryCombobox.tsx:41-45, deps [value]
SyncValueEffect(p, c, acc) ==
  IF /\ p.userCategory # c.userCategory
     /\ c.userCategory # c.inputValue
     /\ ~c.focused
  THEN [acc EXCEPT !.inputValue = c.userCategory]
  ELSE acc

\* CategoryCombobox.tsx:48-56, deps [aiSuggestion, inputValue]
ShowInputEffect(p, c, acc) ==
  IF aiSuggestion(p) # aiSuggestion(c) \/ p.inputValue # c.inputValue
  THEN [acc EXCEPT !.showInput =
          IF ~Truthy(aiSuggestion(c)) /\ ~Truthy(c.inputValue) THEN FALSE
          ELSE IF c.inputValue # aiSuggestion(c) THEN TRUE
          ELSE FALSE]
  ELSE acc

\* CategoryCombobox.tsx:124-163: the <Input> exists only while showInput;
\* an unmounted input cannot be document.activeElement
CommitRender(st) == [st EXCEPT !.focused = st.focused /\ st.showInput]

\* one effect pass after the render of c, in declaration order
EffectPass(p, c) ==
  ShowInputEffect(p, c,
    SyncValueEffect(p, c,
      InitSuggestionEffect(p, c, c)))

\* render c (p was the previous render), run the effects, and re-render
\* while they keep changing state
RECURSIVE Settle(_, _, _)
Settle(p, c, fuel) ==
  LET cc == CommitRender(c)
      n  == EffectPass(p, cc)
  IN  IF n = cc \/ fuel = 0 THEN cc ELSE Settle(cc, n, fuel - 1)

\* the state after a handler left the React state h behind
Rendered(h) == Settle(View, h, Fuel)

SetView(n) ==
  /\ clipData' = n.clipData
  /\ userCategory' = n.userCategory
  /\ isSaving' = n.isSaving
  /\ inputValue' = n.inputValue
  /\ isInitialized' = n.isInitialized
  /\ showInput' = n.showInput
  /\ focused' = n.focused

\* who wrote userCategory: the init effect (the suggestion on display) if
\* it ran during this step, else the handler (typed: the user's edit,
\* late: the suggestion of a cancelled session)
SetWriter(n, typed, late) ==
  IF n.isInitialized /\ ~isInitialized
  THEN userTyped' = FALSE /\ lateCat' = FALSE
  ELSE userTyped' = typed /\ lateCat' = late

\* ------------------------------------------------- capture session (backend)
\* The backend that emits clip-data and owns the toolbar window is not part
\* of the sources; its session life cycle follows the design document:
\* Idle -> AwaitingSuggestion -> Ready -> {Saved | Cancelled}.

\* the event is the first one of a new hotkey press
IsHotkeyPress(sid) == sid > session

\* a hotkey press opens the window, or reuses the open one
WindowAfterEvent(sid) == IF IsHotkeyPress(sid) THEN TRUE ELSE open

\* a close_toolbar_window that succeeds closes the window
WindowAfterClose(ok) == IF ok THEN FALSE ELSE open

\* Ready -> Cancelled: a close that succeeds on the open window cancels the
\* latest session
CancelledAfterClose(ok) == IF ok /\ open THEN TRUE ELSE cancelled

\* Ready -> Saved: the item is persisted and the window closes
WindowAfterSubmit(ok) == IF ok THEN FALSE ELSE open

\* the latest session is Cancelled until the next hotkey press
CancelledAfterEvent(sid) == IF IsHotkeyPress(sid) THEN FALSE ELSE cancelled

\* ---------------------------------------------------------------- handlers
\* ClipToolbar.tsx:20 as captured by the listener, which is registered by an
\* effect with deps [] and so keeps the userCategory of the first render
ListenerUserCategory == <<>>

\* ClipToolbar.tsx:25-32: the clip-data listener; its two state updates are
\* batched into one render (React 18 createRoot)
ClipDataListener(st, payload) ==
  [st EXCEPT
     !.clipData = payload,
     !.userCategory =
        IF Truthy(payload.suggested_category) /\ ~Truthy(ListenerUserCategory)
        THEN payload.suggested_category
        ELSE @]

\* ClipToolbar.tsx:43-44: the userCategory argument of submit_clip
SubmitCategory(st) ==
  OrElse(trim(st.userCategory), OrElse(aiSuggestion(st), Other))

\* ClipToolbar.tsx:45: JSON.stringify(clipData?.clip); 0 stands for undefined
SubmitClipJson(st) == st.clipData.clip

\* ClipToolbar.tsx:39-46: handleSave up to the await
handleSave ==
  /\ pendingSaves < MaxPending
  /\ lastCall' = [cmd |-> "submit_clip",
                  userCategory |-> SubmitCategory(View),
                  clipJson |-> SubmitClipJson(View)]
  /\ pendingSaves' = pendingSaves + 1
  /\ SetView(Rendered([View EXCEPT !.isSaving = TRUE]))
  /\ alerted' = FALSE
  /\ UNCHANGED <<appVars, settingsVars, pendingCloses, focusTimers, session, open, cancelled,
                 lastEvent, lateCat, touched, userTyped, userEdit>>

\* a cancel wired to the save handler
handleCancelSaves == handleSave

\* ClipToolbar.tsx:55-57: handleCancel up to the await; it writes no state
\* of the component
handleCancel ==
  /\ pendingCloses < MaxCloses
  /\ lastCall' = [cmd |-> "close_toolbar_window",
                  userCategory |-> Undefined, clipJson |-> 0]
  /\ pendingCloses' = pendingCloses + 1
  /\ alerted' = FALSE
  /\ UNCHANGED <<appVars, settingsVars, clipData, userCategory, isSaving,
                 inputValue, isInitialized, showInput, focused, focusTimers,
                 pendingSaves, session, open, cancelled, lastEvent, lateCat,
                 touched, userTyped, userEdit>>

\* CategoryCombobox.tsx:67-71: categories.find(...) for Tab completion
MatchingCategories(v) ==
  {i \in 1..Len(categories) :
      /\ startsWith(toLowerCase(categories[i]), toLowerCase(v))
      /\ toLowerCase(categories[i]) # toLowerCase(v)}

\* CategoryCombobox.tsx:107-112: handleInputBlur
handleInputBlur(st) ==
  [st EXCEPT !.focused = FALSE,
             !.showInput = IF Truthy(aiSuggestion(st))
                              /\ st.inputValue = aiSuggestion(st)
                           THEN FALSE ELSE @]

\* ----------------------------------------------------------------- actions
\* A clip-data event reaches the listener.  sid = session + 1 is the event
\* of a new hotkey press, which shows the window; sid <= session is a later
\* event of an earlier press (its suggestion arriving).
ClipDataEvent(sid, sugg) ==
  LET payload == [suggested_category |-> sugg, clip |-> sid]
      n == Rendered(ClipDataListener(View, payload))
      wrote == Truthy(sugg) /\ ~Truthy(ListenerUserCategory)
  IN  /\ SetView(n)
      /\ session' = IF IsHotkeyPress(sid) THEN sid ELSE session
      /\ open' = WindowAfterEvent(sid)
      /\ cancelled' = CancelledAfterEvent(sid)
      /\ lastEvent' = payload
      /\ SetWriter(n, FALSE, IF wrote THEN cancelled /\ ~IsHotkeyPress(sid)
                                      ELSE lateCat)
      /\ userEdit' = IF IsHotkeyPress(sid) THEN Undefined ELSE userEdit
      /\ alerted' = FALSE
      /\ lastCall' = NoCall
      /\ UNCHANGED <<appVars, settingsVars, pendingCloses, focusTimers, pendingSaves,
                     touched>>

\* ClipToolbar.tsx:93: the disabled attribute of the Save button
SaveDisabled == isSaving \/ ~Truthy(aiSuggestion(View))

\* ClipToolbar.tsx:85: the disabled attribute of the Cancel button
CancelDisabled == isSaving

\* ClipToolbar.tsx:91-99: click on the Save button
ClickSave ==
  /\ open
  /\ ~SaveDisabled
  /\ handleSave

\* ClipToolbar.tsx:82-90: click on the Cancel button
ClickCancel ==
  /\ open
  /\ ~CancelDisabled
  /\ handleCancel

\* CategoryCombobox.tsx:58-62: the user edits the text to v
InputChange(v) ==
  /\ open /\ showInput /\ focused
  /\ v # inputValue
  /\ LET n == Rendered([View EXCEPT !.inputValue = v, !.userCategory = v])
     IN  SetView(n) /\ SetWriter(n, TRUE, FALSE)
  /\ userEdit' = v
  /\ touched' = TRUE
  /\ alerted' = FALSE
  /\ lastCall' = NoCall
  /\ UNCHANGED <<appVars, settingsVars, pendingCloses, focusTimers, pendingSaves,
                 session, open, cancelled, lastEvent>>

\* CategoryCombobox.tsx:64-79 and the key's default action: Tab completes
\* the text to the first matching category, else moves focus away
TabKey ==
  /\ open /\ showInput /\ focused
  /\ IF Truthy(inputValue) /\ MatchingCategories(inputValue) # {}
     THEN LET m == categories[SetMin(MatchingCategories(inputValue))]
              n == Rendered([View EXCEPT !.inputValue = m,
                                         !.userCategory = m])
          IN  SetView(n) /\ SetWriter(n, TRUE, FALSE) /\ userEdit' = m
     ELSE /\ SetView(Rendered(handleInputBlur(View)))
          /\ UNCHANGED <<lateCat, userTyped, userEdit>>
  /\ touched' = TRUE
  /\ alerted' = FALSE
  /\ lastCall' = NoCall
  /\ UNCHANGED <<appVars, settingsVars, pendingCloses, focusTimers, pendingSaves,
                 session, open, cancelled, lastEvent>>

\* CategoryCombobox.tsx:88-91 -> ClipToolbar.tsx:63-65: Enter without Shift
EnterKey ==
  /\ open /\ showInput /\ focused
  /\ handleSave

\* an input that forwards every Escape to the toolbar
EscapeKeyForwarded ==
  /\ open /\ showInput /\ focused
  /\ handleCancel

\* CategoryCombobox.tsx:81-91 -> ClipToolbar.tsx:66-67: Escape in the input
EscapeKey ==
  /\ open /\ showInput /\ focused
  /\ IF Truthy(aiSuggestion(View)) /\ inputValue = aiSuggestion(View)
     THEN /\ SetView(Rendered([View EXCEPT !.showInput = FALSE,
                                           !.focused = FALSE]))
          /\ alerted' = FALSE
          /\ lastCall' = NoCall
          /\ UNCHANGED <<appVars, settingsVars, pendingCloses, focusTimers, pendingSaves, session, open, cancelled, lastEvent,
                         lateCat, touched, userTyped, userEdit>>
     ELSE handleCancel

\* CategoryCombobox.tsx:99-105: click on the suggestion badge
BadgeClick ==
  /\ open /\ ~showInput
  /\ Truthy(aiSuggestion(View))
  /\ focusTimers < MaxFocusTimers
  /\ SetView(Rendered([View EXCEPT !.showInput = TRUE]))
  /\ focusTimers' = focusTimers + 1
  /\ touched' = TRUE
  /\ alerted' = FALSE
  /\ lastCall' = NoCall
  /\ UNCHANGED <<appVars, settingsVars, pendingCloses, pendingSaves, session, open,
                 cancelled, lastEvent, lateCat, userTyped, userEdit>>

\* CategoryCombobox.tsx:102-104: one of the pending callbacks runs
\* inputRef.current?.focus(); no handler clears a timer
FocusTimer ==
  /\ focusTimers > 0
  /\ focusTimers' = focusTimers - 1
  /\ focused' = showInput
  /\ alerted' = FALSE
  /\ lastCall' = NoCall
  /\ UNCHANGED <<appVars, settingsVars, pendingCloses, clipData, userCategory, isSaving,
                 inputValue, isInitialized, showInput, pendingSaves,
                 session, open, cancelled, lastEvent, lateCat, touched,
                 userTyped, userEdit>>

\* CategoryCombobox.tsx:150-157: the user clicks into the text input
FocusInput ==
  /\ open /\ showInput /\ ~focused
  /\ focused' = TRUE
  /\ touched' = TRUE
  /\ alerted' = FALSE
  /\ lastCall' = NoCall
  /\ UNCHANGED <<appVars, settingsVars, pendingCloses, clipData, userCategory, isSaving,
                 inputValue, isInitialized, showInput, focusTimers, pendingSaves, session, open, cancelled, lastEvent, lateCat,
                 userTyped, userEdit>>

\* CategoryCombobox.tsx:157: the input loses focus
Blur ==
  /\ open /\ showInput /\ focused
  /\ SetView(Rendered(handleInputBlur(View)))
  /\ alerted' = FALSE
  /\ lastCall' = NoCall
  /\ UNCHANGED <<appVars, settingsVars, pendingCloses, focusTimers, pendingSaves,
                 session, open, cancelled, lastEvent, lateCat, touched,
                 userTyped, userEdit>>

\* a handler without the finally clause: isSaving stays set after a failure
AfterSubmitStuck(st, ok) == [st EXCEPT !.isSaving = IF ok THEN FALSE ELSE @]

\* ClipToolbar.tsx:47-52: the state left by the catch and finally clauses
\* of handleSave; neither outcome writes clipData or userCategory
AfterSubmit(st, ok) == [st EXCEPT !.isSaving = FALSE]

\* ClipToolbar.tsx:47-50: the catch clause reports with alert(...)
AlertAfterSubmit(ok) == ~ok

\* ClipToolbar.tsx:47-52: a submit_clip promise settles.  On success the
\* backend closes the toolbar window.
SubmitSettled(ok) ==
  /\ pendingSaves > 0
  /\ pendingSaves' = pendingSaves - 1
  /\ SetView(Rendered(AfterSubmit(View, ok)))
  /\ open' = WindowAfterSubmit(ok)
  /\ alerted' = AlertAfterSubmit(ok)
  /\ lastCall' = NoCall
  /\ userEdit' = IF WindowAfterSubmit(ok) THEN userEdit ELSE Undefined
  /\ UNCHANGED <<appVars, settingsVars, pendingCloses, focusTimers, session,
                 cancelled, lastEvent, lateCat, touched, userTyped>>

\* ClipToolbar.tsx:57-60: a close_toolbar_window promise settles; ok is the
\* outcome of the command.  Neither outcome writes state of the component
\* (the catch clause only logs); a close that succeeds hides the window.
CloseSettled(ok) ==
  /\ pendingCloses > 0
  /\ pendingCloses' = pendingCloses - 1
  /\ open' = WindowAfterClose(ok)
  /\ cancelled' = CancelledAfterClose(ok)
  /\ alerted' = FALSE
  /\ lastCall' = NoCall
  /\ userEdit' = IF WindowAfterClose(ok) THEN userEdit ELSE Undefined
  /\ UNCHANGED <<appVars, settingsVars, clipData, userCategory, isSaving,
                 inputValue, isInitialized, showInput, focused, focusTimers,
                 pendingSaves, session, lastEvent, lateCat,
                 touched, userTyped>>

InitToolbar ==
  /\ clipData = NullClipData
  /\ userCategory = <<>>
  /\ isSaving = FALSE
  /\ inputValue = <<>>
  /\ isInitialized = FALSE
  /\ showInput = FALSE
  /\ focused = FALSE
  /\ focusTimers = 0
  /\ lastCall = NoCall
  /\ pendingSaves = 0
  /\ pendingCloses = 0
  /\ session = 0
  /\ open = FALSE
  /\ cancelled = FALSE
  /\ lastEvent = NullClipData
  /\ lateCat = FALSE
  /\ touched = FALSE
  /\ userTyped = FALSE
  /\ userEdit = Undefined
  /\ alerted = FALSE

Next ==
  \/ \E sid \in 1..MaxSessions, sugg \in Suggestions \cup {Undefined} :
        sid <= session + 1 /\ ClipDataEvent(sid, sugg)
  \/ ClickSave
  \/ ClickCancel
  \/ \E v \in TypedValues : InputChange(v)
  \/ TabKey
  \/ EnterKey
  \/ EscapeKey
  \/ BadgeClick
  \/ FocusTimer
  \/ FocusInput
  \/ Blur
  \/ \E ok \in BOOLEAN : SubmitSettled(ok)
  \/ \E ok \in BOOLEAN : CloseSettled(ok)

\* =================================================================== App
\* The main window: App (src/unnamed/part_001) with the item grid
\* GridVirtualizer (src/unnamed/part_003), its cards (src/unnamed/part_000)
\* and its detail dialog (src/unnamed/part_002).

\* String.prototype.includes
includes(s, p) ==
  \E i \in 0..(Len(s) - Len(p)) : SubSeq(s, i + 1, i + Len(p)) = p

\* part_003:89: .replace(/[-_]/g, " ")
replaceHyphens(s) ==
  [i \in 1..Len(s) |-> IF s[i] \in {"-", "_"} THEN " " ELSE s[i]]

\* part_003:90: .replace(/\s+/g, " "), each run of white space to one space
RECURSIVE collapseSpaces(_)
collapseSpaces(s) ==
  IF s = <<>> THEN <<>>
  ELSE IF IsSpace(Head(s))
       THEN IF Len(s) > 1 /\ IsSpace(s[2])
            THEN collapseSpaces(Tail(s))
            ELSE <<" ">> \o collapseSpaces(Tail(s))
       ELSE <<Head(s)>> \o collapseSpaces(Tail(s))

\* Array.prototype.join
RECURSIVE join(_, _)
join(fs, sep) ==
  IF fs = <<>> THEN <<>>
  ELSE IF Len(fs) = 1 THEN fs[1]
       ELSE fs[1] \o sep \o join(Tail(fs), sep)

\* part_003:77-83: the searchable fields of an item; an absent field is
\* Undefined, absent tags are the empty list
searchableFields(item) ==
  <<OrElse(item.plain, <<>>), OrElse(item.summary, <<>>),
    OrElse(item.category, <<>>)>> \o item.tags

\* part_003:86-91 and 94-97: the normalisation applied to text and query
normalizeSearch(s) == trim(collapseSpaces(replaceHyphens(s)))

\* a filter that compares without lower-casing the item's text
matchesSearchCased(item, q) ==
  includes(join(searchableFields(item), <<" ">>), trim(toLowerCase(q)))

\* part_003:73-107: the predicate of the search filter
matchesSearch(item, q) ==
  LET query == trim(toLowerCase(q))
      searchableText ==
        normalizeSearch(toLowerCase(join(searchableFields(item), <<" ">>)))
      normalizedQuery == normalizeSearch(query)
      originalText == toLowerCase(join(searchableFields(item), <<" ">>))
  IN  \/ includes(originalText, query)
      \/ includes(searchableText, normalizedQuery)
      \/ includes(searchableText, query)

\* Array.prototype.includes on a list of strings
inList(l, x) == \E i \in 1..Len(l) : l[i] = x

\* a displayedItems whose category filter ignores the case of the letters
displayedItemsAnyCase(its, q, cats) ==
  LET searched == IF Truthy(trim(q))
                  THEN SelectSeq(its, LAMBDA it : matchesSearch(it, q))
                  ELSE its
  IN  IF Len(cats) > 0
      THEN SelectSeq(searched,
                     LAMBDA it : /\ Truthy(it.category)
                                 /\ inList(cats, toLowerCase(it.category)))
      ELSE searched

\* part_003:69-120: displayedItems
displayedItems(its, q, cats) ==
  LET searched == IF Truthy(trim(q))
                  THEN SelectSeq(its, LAMBDA it : matchesSearch(it, q))
                  ELSE its
  IN  IF Len(cats) > 0
      THEN SelectSeq(searched, LAMBDA it : /\ Truthy(it.category)
                                           /\ inList(cats, it.category))
      ELSE searched

\* the clips of the runs: clip k is the k-th capture.  Odd clips are urls
\* with a hyphenated text, even clips are notes with a tag.
Clip(id) ==
  IF id % 2 = 1
  THEN [id |-> id, plain |-> <<"a", "-", "b">>, summary |-> Undefined,
        category |-> s_url, tags |-> <<>>]
  ELSE [id |-> id, plain |-> <<"C">>, summary |-> <<"a", " ", "b">>,
        category |-> s_notes, tags |-> << <<"x", "_", "y">> >>]

\* texts the user leaves in the search box
SearchInputs == { <<>>, <<"a", " ", "B">> }

\* the filter buttons the user presses
FilterChoices == {s_url}

\* selectedItem === null
NullItem ==
  [id |-> 0, plain |-> Undefined, summary |-> Undefined,
   category |-> Undefined, tags |-> <<>>]

\* the state of a freshly mounted GridVirtualizer (part_003:25-30)
GridInitial ==
  [searchQuery |-> <<>>, selectedCategories |-> <<>>,
   dialogOpen |-> FALSE, selectedItem |-> NullItem, isDeleting |-> FALSE]

\* the state of the mounted GridVirtualizer
Grid ==
  [searchQuery |-> searchQuery, selectedCategories |-> selectedCategories,
   dialogOpen |-> clipDialogOpen, selectedItem |-> selectedItem,
   isDeleting |-> isDeleting]

SetGrid(g) ==
  /\ searchQuery' = g.searchQuery
  /\ selectedCategories' = g.selectedCategories
  /\ clipDialogOpen' = g.dialogOpen
  /\ selectedItem' = g.selectedItem
  /\ isDeleting' = g.isDeleting

\* part_001:105-112: App renders the grid only while isLoadingItems is
\* falsy; a grid that is not rendered is unmounted and its state is gone
GridAfterRender(g, loading) == IF loading THEN GridInitial ELSE g

\* part_001:105-112: the grid is on screen
GridMounted == mounted /\ ~isLoadingItems

\* part_003:142-150: with no items the grid renders only the hint
GridControlsShown == GridMounted /\ Len(items) > 0

\* Store.list(): a snapshot of the items, newest first
ListItems(st) == [i \in 1..Len(st) |-> Clip(st[i])]

\* Store.create: the new item is the newest
StoreAfterCreate(st, id) == <<id>> \o st

\* Store.delete
StoreAfterDelete(st, id) == SelectSeq(st, LAMBDA x : x # id)

\* the get_items calls whose promise has not settled yet
InFlight == {n \in 1..Len(calls) : calls[n].stage \in {"issued", "answered",
                                                        "refused"}}

\* a getItems that does not start a fetch while one is in flight
getItemsUnlessLoading ==
  /\ IF mounted /\ isLoadingItems
     THEN UNCHANGED calls
     ELSE calls' = Append(calls, [stage |-> "issued", result |-> <<>>])
  /\ isLoadingItems' = TRUE
  /\ SetGrid(GridAfterRender(Grid, TRUE))
  /\ appToast' = FALSE
  /\ UNCHANGED items

\* part_001:37-39: getItems up to the await
getItems ==
  /\ calls' = Append(calls, [stage |-> "issued", result |-> <<>>])
  /\ isLoadingItems' = TRUE
  /\ SetGrid(GridAfterRender(Grid, TRUE))
  /\ appToast' = FALSE
  /\ UNCHANGED items

\* part_001:50-52 and 72-87: the effects of the first render
AppMount ==
  /\ ~mounted
  /\ mounted' = TRUE
  /\ loadPending' = TRUE
  /\ getItems
  /\ UNCHANGED <<toolbarVars, store, events, deliveries, settingsRest, deleteVars>>

\* the backend stores a new clip and broadcasts clip-saved
BackendCreates(id) ==
  /\ ~inList(store, id)
  /\ events["clip-saved"] + events["clip-deleted"] < MaxEvents
  /\ store' = StoreAfterCreate(store, id)
  /\ events' = [events EXCEPT !["clip-saved"] = @ + 1]
  /\ deliveries' = [deliveries EXCEPT !["clip-saved"] = 0]
  /\ appToast' = FALSE
  /\ UNCHANGED <<toolbarVars, settingsVars, deleteVars, mounted, calls, items,
                 isLoadingItems, gridVars>>

\* the backend deletes a clip and broadcasts clip-deleted
BackendDeletes(id) ==
  /\ inList(store, id)
  /\ events["clip-saved"] + events["clip-deleted"] < MaxEvents
  /\ store' = StoreAfterDelete(store, id)
  /\ events' = [events EXCEPT !["clip-deleted"] = @ + 1]
  /\ deliveries' = [deliveries EXCEPT !["clip-deleted"] = 0]
  /\ appToast' = FALSE
  /\ UNCHANGED <<toolbarVars, settingsVars, deleteVars, mounted, calls, items,
                 isLoadingItems, gridVars>>

\* part_001:75-81: an event reaches the window; again: the bus delivers it
\* once more later.  Before the listeners exist the event is lost.
DeliverEvent(kind, again) ==
  /\ events[kind] > 0
  /\ Len(calls) < MaxFetches
  /\ events' = IF again THEN events ELSE [events EXCEPT ![kind] = @ - 1]
  /\ deliveries' = IF mounted THEN [deliveries EXCEPT ![kind] = @ + 1]
                     ELSE deliveries
  /\ IF mounted
     THEN getItems
     ELSE UNCHANGED <<calls, items, isLoadingItems, gridVars, appToast>>
  /\ UNCHANGED <<toolbarVars, settingsVars, deleteVars, mounted, store>>

\* the backend answers the n-th get_items call, with the list or an error
BackendAnswers(n, ok) ==
  /\ n \in 1..Len(calls)
  /\ calls[n].stage = "issued"
  /\ calls' = [calls EXCEPT ![n] =
                 IF ok THEN [stage |-> "answered", result |-> ListItems(store)]
                 ELSE [stage |-> "refused", result |-> <<>>]]
  /\ appToast' = FALSE
  /\ UNCHANGED <<toolbarVars, settingsVars, deleteVars, mounted, store, events, deliveries, items,
                 isLoadingItems, gridVars>>

\* part_001:40-47: the promise of the n-th get_items call settles
GetItemsSettled(n) ==
  /\ n \in 1..Len(calls)
  /\ calls[n].stage \in {"answered", "refused"}
  /\ calls' = [calls EXCEPT ![n].stage =
                 IF @ = "answered" THEN "fulfilled" ELSE "rejected"]
  /\ items' = IF calls[n].stage = "answered" THEN calls[n].result ELSE items
  /\ appToast' = (calls[n].stage = "refused")
  /\ isLoadingItems' = FALSE
  /\ SetGrid(GridAfterRender(Grid, FALSE))
  /\ UNCHANGED <<toolbarVars, settingsVars, deleteVars, mounted, store, events, deliveries>>

\* part_003:159: the user edits the search box
SearchChange(q) ==
  /\ GridControlsShown
  /\ q # searchQuery
  /\ searchQuery' = q
  /\ appToast' = FALSE
  /\ UNCHANGED <<toolbarVars, settingsVars, deleteVars, isDeleting, mounted, store, events, deliveries, calls,
                 items, isLoadingItems, selectedCategories, clipDialogOpen,
                 selectedItem>>

\* part_003:52-58: toggleCategory
toggleCategory(prev, category) ==
  IF inList(prev, category)
  THEN SelectSeq(prev, LAMBDA c : c # category)
  ELSE Append(prev, category)

\* CategoryFilters.tsx:39-53: click on a filter button
ToggleCategory(category) ==
  /\ GridControlsShown
  /\ selectedCategories' = toggleCategory(selectedCategories, category)
  /\ appToast' = FALSE
  /\ UNCHANGED <<toolbarVars, settingsVars, deleteVars, isDeleting, mounted, store, events, deliveries, calls,
                 items, isLoadingItems, searchQuery, clipDialogOpen,
                 selectedItem>>

\* part_000:113-116: click on the card of a displayed item
OpenItem(i) ==
  /\ GridControlsShown
  /\ ~clipDialogOpen
  /\ i \in 1..Len(displayedItems(items, searchQuery, selectedCategories))
  /\ selectedItem' = displayedItems(items, searchQuery, selectedCategories)[i]
  /\ clipDialogOpen' = TRUE
  /\ appToast' = FALSE
  /\ UNCHANGED <<toolbarVars, settingsVars, deleteVars, isDeleting, mounted, store, events, deliveries, calls,
                 items, isLoadingItems, searchQuery, selectedCategories>>

\* part_002:37: the detail dialog is dismissed
CloseItem ==
  /\ GridControlsShown
  /\ clipDialogOpen
  /\ clipDialogOpen' = FALSE
  /\ appToast' = FALSE
  /\ UNCHANGED <<toolbarVars, settingsVars, deleteVars, isDeleting, mounted, store, events, deliveries, calls,
                 items, isLoadingItems, searchQuery, selectedCategories,
                 selectedItem>>

InitApp ==
  /\ mounted = FALSE
  /\ store = <<>>
  /\ events = [k \in {"clip-saved", "clip-deleted"} |-> 0]
  /\ deliveries = [k \in {"clip-saved", "clip-deleted"} |-> 0]
  /\ calls = <<>>
  /\ items = <<>>
  /\ isLoadingItems = FALSE
  /\ appToast = FALSE
  /\ searchQuery = GridInitial.searchQuery
  /\ selectedCategories = GridInitial.selectedCategories
  /\ clipDialogOpen = GridInitial.dialogOpen
  /\ selectedItem = GridInitial.selectedItem
  /\ isDeleting = GridInitial.isDeleting
  /\ deletes = <<>>
  /\ deleteToast = "none"

NextApp ==
  \/ AppMount
  \/ \E id \in 1..MaxClips : BackendCreates(id)
  \/ \E id \in 1..MaxClips : BackendDeletes(id)
  \/ \E kind \in {"clip-saved", "clip-deleted"}, again \in BOOLEAN :
        DeliverEvent(kind, again)
  \/ \E n \in 1..MaxFetches, ok \in BOOLEAN : BackendAnswers(n, ok)
  \/ \E n \in 1..MaxFetches : GetItemsSettled(n)
  \/ \E q \in SearchInputs : SearchChange(q)
  \/ \E c \in FilterChoices : ToggleCategory(c)
  \/ \E i \in 1..Len(items) : OpenItem(i)
  \/ CloseItem

\* part_001:37-48, 66-87: the steps that mount App, emit and deliver the
\* change events and carry a get_items call; the search box, the category
\* filter and the detail dialog are left alone
NextFetch ==
  \/ AppMount
  \/ \E id \in 1..MaxClips : BackendCreates(id)
  \/ \E id \in 1..MaxClips : BackendDeletes(id)
  \/ \E kind \in {"clip-saved", "clip-deleted"}, again \in BOOLEAN :
        DeliverEvent(kind, again)
  \/ \E n \in 1..MaxFetches, ok \in BOOLEAN : BackendAnswers(n, ok)
  \/ \E n \in 1..MaxFetches : GetItemsSettled(n)

\* ------------------------------------------------------------- delete
\* the grid instance that called delete_item is still mounted: no getItems
\* has unmounted it since
IssuerMounted(d) == d.epoch = Len(calls)

\* part_002:73-80: the disabled attribute of the delete button
DeleteDisabled == isDeleting

\* part_003:122-126, part_002:73-80: handleDelete up to the await
ClickDelete ==
  /\ GridControlsShown
  /\ clipDialogOpen
  /\ ~DeleteDisabled
  /\ ~isDeleting
  /\ Len(deletes) < MaxDeletes
  /\ isDeleting' = TRUE
  /\ deletes' = Append(deletes, [itemId |-> selectedItem.id,
                                 epoch |-> Len(calls)])
  /\ appToast' = FALSE
  /\ UNCHANGED <<toolbarVars, settingsVars, mounted, store, events, deliveries, calls,
                 items, isLoadingItems, searchQuery, selectedCategories,
                 clipDialogOpen, selectedItem, deleteToast>>

\* delete_item(id): removes the record, a no-op if it is absent, and
\* broadcasts the change
BackendDeleteItem(id, ok) ==
  IF ok
  THEN /\ events["clip-saved"] + events["clip-deleted"] < MaxEvents
       /\ store' = StoreAfterDelete(store, id)
       /\ events' = [events EXCEPT !["clip-deleted"] = @ + 1]
       /\ deliveries' = [deliveries EXCEPT !["clip-deleted"] = 0]
  ELSE UNCHANGED <<store, events, deliveries>>

\* part_003:126-139: the n-th delete_item promise settles.  After a success
\* the handler closes the dialog, clears the selection and calls getItems,
\* which unmounts the grid; the setIsDeleting(false) of the finally clause
\* then reaches an unmounted grid.  After a failure the state updates reach
\* the grid only if it is still the one that made the call.
DeleteSettled(n, ok) ==
  /\ n \in 1..Len(deletes)
  /\ BackendDeleteItem(deletes[n].itemId, ok)
  /\ deletes' = SubSeq(deletes, 1, n - 1) \o SubSeq(deletes, n + 1, Len(deletes))
  /\ IF ok
     THEN /\ Len(calls) < MaxFetches
          /\ deleteToast' = "Successfully deleted the clip"
          /\ getItems
     ELSE /\ deleteToast' = "Failed to delete item"
          /\ isDeleting' = IF IssuerMounted(deletes[n]) THEN FALSE
                           ELSE isDeleting
          /\ appToast' = FALSE
          /\ UNCHANGED <<calls, items, isLoadingItems, searchQuery,
                         selectedCategories, clipDialogOpen, selectedItem>>
  /\ UNCHANGED <<toolbarVars, settingsVars, mounted>>

\* the detail dialog and its delete button, with the list refreshes around
NextDelete ==
  \/ AppMount
  \/ \E id \in 1..MaxClips : BackendCreates(id)
  \/ \E kind \in {"clip-saved", "clip-deleted"}, again \in BOOLEAN :
        DeliverEvent(kind, again)
  \/ \E n \in 1..MaxFetches, ok \in BOOLEAN : BackendAnswers(n, ok)
  \/ \E n \in 1..MaxFetches : GetItemsSettled(n)
  \/ \E i \in 1..Len(items) : OpenItem(i)
  \/ CloseItem
  \/ ClickDelete
  \/ \E n \in 1..MaxDeletes, ok \in BOOLEAN : DeleteSettled(n, ok)

\* ============================================================== settings
\* The settings dialog (src/src/SettingsDialog.tsx) and the settings state
\* App keeps for it (src/unnamed/part_001:33-35, 54-70).

\* part_001:60: the shortcut shown when no global_hotkey is stored
DefaultShortcut ==
  <<"C","o","m","m","a","n","d","O","r","C","o","n","t","r","o","l","+",
    "S","h","i","f","t","+","C">>

s_altk == <<"A", "l", "t", "+", "K">>

\* texts the user leaves in the shortcut input: a binding, a word that is
\* no binding, and blanks
ShortcutInputs == {s_altk, <<"x">>, <<" ">>}

\* texts the user leaves in the API key input
ApiKeyInputs == {<<>>, <<"k">>}

\* String.prototype.split, for a one-character separator
RECURSIVE split(_, _)
split(s, sep) ==
  IF \E i \in 1..Len(s) : s[i] = sep
  THEN LET i == SetMin({j \in 1..Len(s) : s[j] = sep})
       IN  <<SubSeq(s, 1, i - 1)>> \o split(SubSeq(s, i + 1, Len(s)), sep)
  ELSE <<s>>

\* the modifier names a binding may carry
Modifiers ==
  { <<"C","o","m","m","a","n","d","O","r","C","o","n","t","r","o","l">>,
    <<"S","h","i","f","t">>, <<"A","l","t">>, <<"C","t","r","l">>,
    <<"C","m","d">> }

\* register_hotkey / test_hotkey: a binding is one or more modifiers and
\* then one key; anything else is an InvalidHotkeyError
ValidHotkey(h) ==
  LET parts == split(h, "+")
  IN  /\ Len(parts) >= 2
      /\ \A i \in 1..(Len(parts) - 1) : parts[i] \in Modifiers
      /\ parts[Len(parts)] # <<>>
      /\ parts[Len(parts)] \notin Modifiers

\* ------------------------------------------------------- hotkey capture
\* SettingsDialog.tsx:51: useRecordHotkeys() of react-hotkeys-hook.  start()
\* empties the recorded keys and sets isRecording, every key pressed while
\* recording is added to the set under its lower-case name, and stop()
\* clears isRecording and keeps the keys.

k_shift == <<"s","h","i","f","t">>
k_ctrl == <<"c","t","r","l">>
k_f1 == <<"f","1">>

\* the keys a capture records: two modifiers, a character and a named key
RecordableKeys == {k_shift, k_ctrl, <<"a">>, k_f1}

s_CommandOrControl == <<"C","o","m","m","a","n","d","O","r","C","o","n","t","r","o","l">>
s_Shift == <<"S","h","i","f","t">>
s_Alt == <<"A","l","t">>

\* SettingsDialog.tsx:107-135: the key names formatHotkey accepts as they are
NamedKeys ==
  { <<"F","1">>,
    <<"F","2">>,
    <<"F","3">>,
    <<"F","4">>,
    <<"F","5">>,
    <<"F","6">>,
    <<"F","7">>,
    <<"F","8">>,
    <<"F","9">>,
    <<"F","1","0">>,
    <<"F","1","1">>,
    <<"F","1","2">>,
    <<"S","p","a","c","e">>,
    <<"E","n","t","e","r">>,
    <<"E","s","c","a","p","e">>,
    <<"T","a","b">>,
    <<"B","a","c","k","s","p","a","c","e">>,
    <<"D","e","l","e","t","e">>,
    <<"I","n","s","e","r","t">>,
    <<"H","o","m","e">>,
    <<"E","n","d">>,
    <<"P","a","g","e","U","p">>,
    <<"P","a","g","e","D","o","w","n">>,
    <<"A","r","r","o","w","U","p">>,
    <<"A","r","r","o","w","D","o","w","n">>,
    <<"A","r","r","o","w","L","e","f","t">>,
    <<"A","r","r","o","w","R","i","g","h","t">> }

\* SettingsDialog.tsx:90-92: push the token unless modifiers includes it
PushOnce(modifiers, token) ==
  IF inList(modifiers, token) THEN modifiers ELSE Append(modifiers, token)

\* SettingsDialog.tsx:87-138: the forEach of formatHotkey, key by key in
\* insertion order
RECURSIVE formatKeys(_, _, _)
formatKeys(recordedKeys, modifiers, regularKeys) ==
  IF recordedKeys = <<>> THEN modifiers \o regularKeys
  ELSE LET key == Head(recordedKeys)
           lower == toLowerCase(key)
           rest == Tail(recordedKeys)
       IN  IF lower \in {<<"c","o","n","t","r","o","l">>, <<"c","t","r","l">>}
           THEN formatKeys(rest, PushOnce(modifiers, s_CommandOrControl),
                           regularKeys)
           ELSE IF lower \in {<<"m","e","t","a">>, <<"c","m","d">>, <<"c","o","m","m","a","n","d">>}
           THEN formatKeys(rest, PushOnce(modifiers, s_CommandOrControl),
                           regularKeys)
           ELSE IF lower = <<"s","h","i","f","t">>
           THEN formatKeys(rest, PushOnce(modifiers, s_Shift), regularKeys)
           ELSE IF lower \in {<<"a","l","t">>, <<"o","p","t","i","o","n">>}
           THEN formatKeys(rest, PushOnce(modifiers, s_Alt), regularKeys)
           ELSE IF Len(key) = 1 \/ key \in NamedKeys
           THEN formatKeys(rest, modifiers,
                           Append(regularKeys, toUpperCase(key)))
           ELSE formatKeys(rest, modifiers, regularKeys)

\* SettingsDialog.tsx:83-141: formatHotkey
formatHotkey(recordedKeys) == join(formatKeys(recordedKeys, <<>>, <<>>), <<"+">>)

\* SettingsDialog.tsx:211-218, 222-229: the names the auto-finish effect
\* takes for modifiers
EffectModifiers ==
  { <<"c","o","n","t","r","o","l">>, <<"m","e","t","a">>, <<"s","h","i","f","t">>, <<"a","l","t">>, <<"c","m","d">>, <<"c","o","m","m","a","n","d">> }

\* SettingsDialog.tsx:210-219: hasModifier
hasModifier(ks) ==
  \E i \in 1..Len(ks) : toLowerCase(ks[i]) \in EffectModifiers

\* SettingsDialog.tsx:221-230: hasRegularKey
hasRegularKey(ks) ==
  \E i \in 1..Len(ks) : toLowerCase(ks[i]) \notin EffectModifiers

\* SettingsDialog.tsx:208-233: the auto-finish effect, deps [keys,
\* isRecording]: its cleanup clears the timer of the previous run, and it
\* sets a timer when the recorded keys hold a modifier and a regular key.
\* The result tells whether a timer is pending after the effect.
AutoFinishEffect(rec, ks) ==
  rec /\ Len(ks) > 0 /\ hasModifier(ks) /\ hasRegularKey(ks)

\* a dialog whose closing leaves the recording alone
StopRecordingEffectIdle(isOpen, rec) == rec

\* SettingsDialog.tsx:201-206: the effect that stops a recording when the
\* dialog is no longer open; the result is isRecording after the effect
StopRecordingEffect(isOpen, rec) == IF ~isOpen /\ rec THEN FALSE ELSE rec

\* no saveSettings call is running
NoSave == [phase |-> "idle", hotkey |-> <<>>, apiKey |-> <<>>]

\* part_001:68-70: the effect that derives hasLlmApiKey
HasLlmApiKeyEffect(apiKey) == trim(apiKey) # <<>>

\* part_001:54-66: a get_all_settings promise settles
LoadSettingsSettled(ok) ==
  /\ loadPending
  /\ loadPending' = FALSE
  /\ IF ok
     THEN /\ globalShortcut' = OrElse(storedHotkey, DefaultShortcut)
          /\ llmApiKey' = OrElse(storedApiKey, <<>>)
          /\ hasChanges' = FALSE
          /\ synced' = [hotkey |-> OrElse(storedHotkey, DefaultShortcut),
                        apiKey |-> OrElse(storedApiKey, <<>>)]
     ELSE UNCHANGED <<globalShortcut, llmApiKey, hasChanges, synced>>
  /\ hasLlmApiKey' = HasLlmApiKeyEffect(llmApiKey')
  /\ toast' = "none"
  /\ UNCHANGED <<toolbarVars, appVars, recordVars, settingsOpen, settingsSaving,
                 isTesting, testResult, saveCall, testCall, timers,
                 storedHotkey, storedApiKey, tested>>

\* part_001:100: click on the settings button
OpenSettings ==
  /\ mounted /\ ~settingsOpen
  /\ settingsOpen' = TRUE
  /\ toast' = "none"
  /\ UNCHANGED <<toolbarVars, appVars, recordVars, loadPending, globalShortcut,
                 llmApiKey, hasChanges, hasLlmApiKey, settingsSaving,
                 isTesting, testResult, saveCall, testCall, timers,
                 storedHotkey, storedApiKey, synced, tested>>

\* SettingsDialog.tsx:236, 366-373: the dialog is dismissed
CloseSettings ==
  /\ settingsOpen
  /\ settingsOpen' = FALSE
  /\ isRecording' = StopRecordingEffect(FALSE, isRecording)
  /\ captureTimer' = AutoFinishEffect(isRecording', keys)
  /\ toast' = "none"
  /\ UNCHANGED <<toolbarVars, appVars, keys, loadPending, globalShortcut,
                 llmApiKey, hasChanges, hasLlmApiKey, settingsSaving,
                 isTesting, testResult, saveCall, testCall, timers,
                 storedHotkey, storedApiKey, synced, tested>>

\* SettingsDialog.tsx:71-75, 254-271: handleShortcutChange(value)
ShortcutChange(value) ==
  /\ settingsOpen
  /\ ~isRecording
  /\ value # globalShortcut
  /\ globalShortcut' = value
  /\ hasChanges' = TRUE
  /\ testResult' = "null"
  /\ toast' = "none"
  /\ UNCHANGED <<toolbarVars, appVars, recordVars, loadPending, settingsOpen, llmApiKey,
                 hasLlmApiKey, settingsSaving, isTesting, saveCall, testCall,
                 timers, storedHotkey, storedApiKey, synced, tested>>

\* SettingsDialog.tsx:77-80, 335-344: handleApiKeyChange(value)
ApiKeyChange(value) ==
  /\ settingsOpen
  /\ value # llmApiKey
  /\ llmApiKey' = value
  /\ hasChanges' = TRUE
  /\ hasLlmApiKey' = HasLlmApiKeyEffect(value)
  /\ toast' = "none"
  /\ UNCHANGED <<toolbarVars, appVars, recordVars, loadPending, settingsOpen,
                 globalShortcut, settingsSaving, isTesting, testResult,
                 saveCall, testCall, timers, storedHotkey, storedApiKey,
                 synced, tested>>

\* SettingsDialog.tsx:377: the disabled attribute of the Save button
SaveSettingsDisabled == settingsSaving \/ ~hasChanges \/ isRecording

\* SettingsDialog.tsx:53-56: saveSettings up to its first await; the call
\* carries the globalShortcut and llmApiKey of the render it was made in
ClickSaveSettings ==
  /\ settingsOpen
  /\ ~SaveSettingsDisabled
  /\ settingsSaving' = TRUE
  /\ saveCall' = [phase |-> "hotkey", hotkey |-> globalShortcut,
                  apiKey |-> llmApiKey]
  /\ toast' = "none"
  /\ UNCHANGED <<toolbarVars, appVars, recordVars, loadPending, settingsOpen,
                 globalShortcut, llmApiKey, hasChanges, hasLlmApiKey,
                 isTesting, testResult, testCall, timers, storedHotkey,
                 storedApiKey, synced, tested>>

\* a saveSettings that goes on to write the API key after a failed
\* registration
PhaseAfterHotkeyAlways(ok) == "apikey"

\* SettingsDialog.tsx:56-57, 62: after set_global_hotkey the function
\* goes on to set_setting, or leaves through catch and finally
PhaseAfterHotkey(ok) == IF ok THEN "apikey" ELSE "idle"

\* SettingsDialog.tsx:56, 62-68: the set_global_hotkey promise settles.
\* A successful registration stores the binding as global_hotkey.
HotkeySettled(ok) ==
  /\ saveCall.phase = "hotkey"
  /\ ok => ValidHotkey(saveCall.hotkey)
  /\ storedHotkey' = IF ok THEN saveCall.hotkey ELSE storedHotkey
  /\ synced' = IF ok THEN [synced EXCEPT !.hotkey = saveCall.hotkey]
               ELSE synced
  /\ saveCall' = IF PhaseAfterHotkey(ok) = "apikey"
                 THEN [saveCall EXCEPT !.phase = "apikey"]
                 ELSE NoSave
  /\ settingsSaving' = (PhaseAfterHotkey(ok) = "apikey")
  /\ toast' = IF ok THEN "none" ELSE "Failed to save settings"
  /\ UNCHANGED <<toolbarVars, appVars, recordVars, loadPending, settingsOpen,
                 globalShortcut, llmApiKey, hasChanges, hasLlmApiKey,
                 isTesting, testResult, testCall, timers, storedApiKey,
                 tested>>

\* SettingsDialog.tsx:57-68: the set_setting promise settles
ApiKeySettled(ok) ==
  /\ saveCall.phase = "apikey"
  /\ storedApiKey' = IF ok THEN saveCall.apiKey ELSE storedApiKey
  /\ synced' = IF ok THEN [synced EXCEPT !.apiKey = saveCall.apiKey]
               ELSE synced
  /\ hasChanges' = IF ok THEN FALSE ELSE hasChanges
  /\ saveCall' = NoSave
  /\ settingsSaving' = FALSE
  /\ toast' = IF ok THEN "none" ELSE "Failed to save settings"
  /\ UNCHANGED <<toolbarVars, appVars, recordVars, loadPending, settingsOpen,
                 globalShortcut, llmApiKey, hasLlmApiKey, isTesting,
                 testResult, testCall, timers, storedHotkey, tested>>

\* SettingsDialog.tsx:293: the disabled attribute of the Test button
TestDisabled == isTesting \/ ~Truthy(trim(globalShortcut)) \/ isRecording

\* SettingsDialog.tsx:158-169: testHotkey up to the await
ClickTest ==
  /\ settingsOpen
  /\ ~TestDisabled
  /\ Len(timers) < MaxTimers
  /\ isTesting' = TRUE
  /\ testResult' = "null"
  /\ testCall' = globalShortcut
  /\ toast' = "none"
  /\ UNCHANGED <<toolbarVars, appVars, recordVars, loadPending, settingsOpen,
                 globalShortcut, llmApiKey, hasChanges, hasLlmApiKey,
                 settingsSaving, saveCall, timers, storedHotkey,
                 storedApiKey, synced, tested>>

\* SettingsDialog.tsx:172: setTimeout(() => setTestResult(null), 3000)
SuccessExpiry == 3000

\* SettingsDialog.tsx:181: setTimeout(() => setTestResult(null), 5000)
ErrorExpiry == 5000

\* SettingsDialog.tsx:166-184: the test_global_hotkey promise settles;
\* either outcome starts a timer that clears the result
TestSettled(ok) ==
  /\ isTesting
  /\ ok => ValidHotkey(testCall)
  /\ testResult' = IF ok THEN "success" ELSE "error"
  /\ tested' = IF ok THEN testCall ELSE tested
  /\ timers' = Append(timers, IF ok THEN SuccessExpiry ELSE ErrorExpiry)
  /\ isTesting' = FALSE
  /\ testCall' = Undefined
  /\ toast' = IF ok THEN "none" ELSE "Invalid hotkey"
  /\ UNCHANGED <<toolbarVars, appVars, recordVars, loadPending, settingsOpen,
                 globalShortcut, llmApiKey, hasChanges, hasLlmApiKey,
                 settingsSaving, saveCall, storedHotkey, storedApiKey,
                 synced>>

\* SettingsDialog.tsx:172, 181: the i-th pending timer of testHotkey fires.
\* No timer is ever cleared; a timer started earlier with a delay that is
\* not longer has expired before timer i.
TimerFires(i) ==
  /\ i \in 1..Len(timers)
  /\ \A j \in 1..(i - 1) : timers[j] > timers[i]
  /\ timers' = SubSeq(timers, 1, i - 1) \o SubSeq(timers, i + 1, Len(timers))
  /\ testResult' = "null"
  /\ toast' = "none"
  /\ UNCHANGED <<toolbarVars, appVars, recordVars, loadPending, settingsOpen,
                 globalShortcut, llmApiKey, hasChanges, hasLlmApiKey,
                 settingsSaving, isTesting, saveCall, testCall,
                 storedHotkey, storedApiKey, synced, tested>>

\* SettingsDialog.tsx:144-147, 278-287: startCapture, the Capture button
StartCapture ==
  /\ settingsOpen
  /\ ~isRecording
  /\ testResult' = "null"
  /\ keys' = <<>>
  /\ isRecording' = TRUE
  /\ captureTimer' = AutoFinishEffect(TRUE, <<>>)
  /\ toast' = "none"
  /\ UNCHANGED <<toolbarVars, appVars, loadPending, settingsOpen,
                 globalShortcut, llmApiKey, hasChanges, hasLlmApiKey,
                 settingsSaving, isTesting, saveCall, testCall, timers,
                 storedHotkey, storedApiKey, synced, tested>>

\* SettingsDialog.tsx:51: a key pressed while recording joins the set, and
\* the auto-finish effect runs again
RecordKey(key) ==
  /\ isRecording
  /\ Len(keys) < MaxKeys
  /\ ~inList(keys, key)
  /\ keys' = Append(keys, key)
  /\ captureTimer' = AutoFinishEffect(isRecording, keys')
  /\ toast' = "none"
  /\ UNCHANGED <<toolbarVars, appVars, loadPending, settingsOpen,
                 globalShortcut, llmApiKey, hasChanges, hasLlmApiKey,
                 settingsSaving, isTesting, testResult, saveCall, testCall,
                 timers, storedHotkey, storedApiKey, synced, tested,
                 isRecording>>

\* SettingsDialog.tsx:149-156: finishCapture
finishCapture ==
  /\ IF Len(keys) > 0
     THEN /\ globalShortcut' = formatHotkey(keys)
          /\ hasChanges' = TRUE
     ELSE UNCHANGED <<globalShortcut, hasChanges>>
  /\ isRecording' = FALSE
  /\ captureTimer' = AutoFinishEffect(FALSE, keys)
  /\ toast' = "none"
  /\ UNCHANGED <<toolbarVars, appVars, loadPending, settingsOpen, llmApiKey,
                 hasLlmApiKey, settingsSaving, isTesting, testResult,
                 saveCall, testCall, timers, storedHotkey, storedApiKey,
                 synced, tested, keys>>

\* SettingsDialog.tsx:278-287: the Finish button, shown while recording
FinishCapture ==
  /\ settingsOpen
  /\ isRecording
  /\ finishCapture

\* SettingsDialog.tsx:225-229: the auto-finish timer fires
AutoFinishFires ==
  /\ captureTimer
  /\ finishCapture

\* an earlier run of the program has left settings in the store
EarlierRun(hotkey, apiKey) ==
  /\ ~mounted
  /\ storedHotkey = Undefined /\ storedApiKey = Undefined
  /\ Truthy(hotkey) \/ Truthy(apiKey)
  /\ storedHotkey' = hotkey
  /\ storedApiKey' = apiKey
  /\ toast' = "none"
  /\ UNCHANGED <<toolbarVars, appVars, recordVars, loadPending, settingsOpen,
                 globalShortcut, llmApiKey, hasChanges, hasLlmApiKey,
                 settingsSaving, isTesting, testResult, saveCall, testCall,
                 timers, synced, tested>>

InitSettings ==
  /\ loadPending = FALSE
  /\ settingsOpen = FALSE
  /\ globalShortcut = <<>>
  /\ llmApiKey = <<>>
  /\ hasChanges = FALSE
  /\ hasLlmApiKey = FALSE
  /\ settingsSaving = FALSE
  /\ isTesting = FALSE
  /\ testResult = "null"
  /\ toast = "none"
  /\ saveCall = NoSave
  /\ testCall = Undefined
  /\ timers = <<>>
  /\ storedHotkey = Undefined
  /\ storedApiKey = Undefined
  /\ synced = [hotkey |-> <<>>, apiKey |-> <<>>]
  /\ tested = Undefined
  /\ isRecording = FALSE
  /\ keys = <<>>
  /\ captureTimer = FALSE

NextSettings ==
  \/ \E h \in {Undefined, s_altk}, k \in {Undefined, <<"k">>} : EarlierRun(h, k)
  \/ AppMount
  \/ \E ok \in BOOLEAN : LoadSettingsSettled(ok)
  \/ OpenSettings
  \/ CloseSettings
  \/ \E v \in ShortcutInputs : ShortcutChange(v)
  \/ \E v \in ApiKeyInputs : ApiKeyChange(v)
  \/ ClickSaveSettings
  \/ \E ok \in BOOLEAN : HotkeySettled(ok)
  \/ \E ok \in BOOLEAN : ApiKeySettled(ok)
  \/ ClickTest
  \/ \E ok \in BOOLEAN : TestSettled(ok)
  \/ \E i \in 1..MaxTimers : TimerFires(i)
  \/ StartCapture
  \/ FinishCapture

\* the hotkey capture of the settings dialog on its own
NextCapture ==
  \/ AppMount
  \/ \E ok \in BOOLEAN : LoadSettingsSettled(ok)
  \/ OpenSettings
  \/ CloseSettings
  \/ \E v \in ShortcutInputs : ShortcutChange(v)
  \/ StartCapture
  \/ \E k \in RecordableKeys : RecordKey(k)
  \/ FinishCapture
  \/ AutoFinishFires

\* ----------------------------------------------------------------- search
\* The search filter of the grid on its own: item lists and queries are
\* drawn from the sets below, and the user goes on typing and opening cards.

s_code == <<"c","o","d","e","_","s","n","i","p","p","e","t">>

\* items with hyphens, underscores, capitals, runs of spaces, tags, a
\* summary, and an image clip (no plain text)
SearchCatalogue ==
  << [id |-> 1, plain |-> <<"a", "-", "b">>, summary |-> Undefined,
      category |-> s_url, tags |-> <<>>],
     [id |-> 2, plain |-> <<"F", "o", " ", " ", "b">>, summary |-> <<"s">>,
      category |-> s_notes, tags |-> << <<"x", "_", "y">>, <<"T">> >>],
     [id |-> 3, plain |-> Undefined, summary |-> Undefined,
      category |-> Undefined, tags |-> << <<"a", "b">> >>],
     [id |-> 4, plain |-> <<"x", " ", "y">>, summary |-> <<"a", "_", "b">>,
      category |-> s_code, tags |-> <<>>],
     [id |-> 5, plain |-> <<"q">>, summary |-> <<>>,
      category |-> Undefined, tags |-> << <<"f", "o">>, <<"b">> >>] >>

\* the item lists of the runs: two items of the catalogue
SearchLists ==
  { <<SearchCatalogue[i], SearchCatalogue[j]>> :
      i \in 1..Len(SearchCatalogue), j \in 1..Len(SearchCatalogue) }
  \ { <<SearchCatalogue[i], SearchCatalogue[i]>> :
      i \in 1..Len(SearchCatalogue) }

\* the texts typed into the search box
SearchQueries ==
  { <<>>, <<" ">>, <<"a", "-", "b">>, <<"A", "_", "B">>, <<"a", " ", "b">>,
    <<" ", "a", "b", " ">>, <<"x", "-", "y">>, <<"X", " ", "Y">>,
    <<"f", "o", " ", "b">>, <<"b", " ", "u", "r", "l">>, <<"-">>, <<"t">>,
    <<"c","o","d","e","-","s","n","i","p","p","e","t">>, <<"z">>,
    <<"s", " ", "n", "o", "t", "e", "s">>, <<"q", " ", " ", "f", "o">> }

InitSearch ==
  /\ InitToolbar /\ InitSettings
  /\ mounted = TRUE
  /\ store = <<>>
  /\ events = [k \in {"clip-saved", "clip-deleted"} |-> 0]
  /\ deliveries = [k \in {"clip-saved", "clip-deleted"} |-> 0]
  /\ calls = <<>>
  /\ items \in SearchLists
  /\ isLoadingItems = FALSE
  /\ appToast = FALSE
  /\ searchQuery \in SearchQueries
  /\ selectedCategories = GridInitial.selectedCategories
  /\ clipDialogOpen = GridInitial.dialogOpen
  /\ selectedItem = GridInitial.selectedItem
  /\ isDeleting = GridInitial.isDeleting
  /\ deletes = <<>>
  /\ deleteToast = "none"

NextSearch ==
  \/ \E q \in SearchQueries : SearchChange(q)
  \/ \E c \in FilterChoices : ToggleCategory(c)
  \/ \E i \in 1..Len(items) : OpenItem(i)
  \/ CloseItem

\* ----------------------------------------------------------------- filter
\* The category filter and the rendering of clips on drawn lists: items
\* with a category of the filter list, with a category in another case,
\* with the fallback "Other" of the toolbar, without a category, with an
\* empty text, with a link, and an image clip.

s_other == <<"o","t","h","e","r">>
s_Url == <<"U","r","l">>
s_link == <<"h","t","t","p",":","/","/","x">>

FilterCatalogue ==
  << [id |-> 1, plain |-> <<"a", "-", "b">>, summary |-> Undefined,
      category |-> s_url, tags |-> <<>>],
     [id |-> 2, plain |-> s_link, summary |-> Undefined,
      category |-> s_Url, tags |-> <<>>],
     [id |-> 3, plain |-> Undefined, summary |-> Undefined,
      category |-> Undefined, tags |-> <<>>],
     [id |-> 4, plain |-> <<"a">>, summary |-> Undefined,
      category |-> Other, tags |-> <<>>],
     [id |-> 5, plain |-> <<>>, summary |-> Undefined,
      category |-> s_other, tags |-> <<>>],
     [id |-> 6, plain |-> <<"x">>, summary |-> Undefined,
      category |-> s_code, tags |-> <<>>] >>

\* the item lists of the runs: three items of the catalogue
FilterLists ==
  { <<FilterCatalogue[t[1]], FilterCatalogue[t[2]], FilterCatalogue[t[3]]>> :
      t \in { u \in (1..Len(FilterCatalogue)) \X (1..Len(FilterCatalogue))
                       \X (1..Len(FilterCatalogue)) :
                u[1] # u[2] /\ u[1] # u[3] /\ u[2] # u[3] } }

\* the texts typed into the search box
FilterQueries == { <<>>, <<" ">>, <<"a">> }

\* the filter buttons the user presses, three of CategoryFilters.tsx:12-26
FilterButtons == {s_url, s_code, s_other}

\* part_003:60-62, CategoryFilters.tsx:54-61: the Clear All button, shown
\* while a category is selected
ClearAllCategories ==
  /\ GridControlsShown
  /\ Len(selectedCategories) > 0
  /\ selectedCategories' = <<>>
  /\ appToast' = FALSE
  /\ UNCHANGED <<toolbarVars, settingsVars, deleteVars, isDeleting, mounted,
                 store, events, deliveries, calls, items, isLoadingItems, searchQuery,
                 clipDialogOpen, selectedItem>>

\* part_003:64-66, 160-164: the clear button of the search box, shown while
\* the query is not empty
ClearSearch ==
  /\ GridControlsShown
  /\ searchQuery # <<>>
  /\ searchQuery' = <<>>
  /\ appToast' = FALSE
  /\ UNCHANGED <<toolbarVars, settingsVars, deleteVars, isDeleting, mounted,
                 store, events, deliveries, calls, items, isLoadingItems,
                 selectedCategories, clipDialogOpen, selectedItem>>

\* part_000:122-124: the category badge of a card
Badge(item) == OrElse(item.category, Other)

\* part_001:14-17: the clip of an item; exactly one variant is populated,
\* an item without a text is an image
clipOf(item) ==
  [Text |-> item.plain,
   Image |-> IF item.plain = Undefined THEN <<"d">> ELSE Undefined]

\* utils.ts:45: isUrl, /^https?:\/\/[^\s]+$/
isUrl(text) ==
  \E scheme \in {<<"h","t","t","p",":","/","/">>, <<"h","t","t","p","s",":","/","/">>} :
    /\ startsWith(text, scheme)
    /\ Len(text) > Len(scheme)
    /\ \A i \in (Len(scheme) + 1)..Len(text) : ~IsSpace(text[i])

\* part_003:277-335: renderClipContent, by the element it returns
renderClipContent(clip, category) ==
  IF Truthy(clip.Text)
  THEN IF category = s_code THEN "CodeBlock"
       ELSE IF isUrl(clip.Text) THEN "link"
       ELSE "text"
  ELSE IF clip.Image # Undefined THEN "image"
  ELSE "Unknown Clip"

InitFilter ==
  /\ InitToolbar /\ InitSettings
  /\ mounted = TRUE
  /\ store = <<>>
  /\ events = [k \in {"clip-saved", "clip-deleted"} |-> 0]
  /\ deliveries = [k \in {"clip-saved", "clip-deleted"} |-> 0]
  /\ calls = <<>>
  /\ items \in FilterLists
  /\ isLoadingItems = FALSE
  /\ appToast = FALSE
  /\ searchQuery = GridInitial.searchQuery
  /\ selectedCategories = GridInitial.selectedCategories
  /\ clipDialogOpen = GridInitial.dialogOpen
  /\ selectedItem = GridInitial.selectedItem
  /\ isDeleting = GridInitial.isDeleting
  /\ deletes = <<>>
  /\ deleteToast = "none"

NextFilter ==
  \/ \E q \in FilterQueries : SearchChange(q)
  \/ ClearSearch
  \/ \E c \in FilterButtons : ToggleCategory(c)
  \/ ClearAllCategories
  \/ \E i \in 1..Len(items) : OpenItem(i)
  \/ CloseItem

\* ---------------------------------------------------------- specifications
\* The toolbar window, the item list and the settings dialog share no
\* state, so each is explored by a specification of its own.
Init == InitToolbar /\ InitApp /\ InitSettings

Spec == Init /\ [][Next]_vars

SpecApp == Init /\ [][NextApp]_vars

SpecFetch == Init /\ [][NextFetch]_vars

SpecSettings == Init /\ [][NextSettings]_vars

SpecCapture == Init /\ [][NextCapture]_vars

SpecDelete == Init /\ [][NextDelete]_vars

SpecSearch == InitSearch /\ [][NextSearch]_vars

SpecFilter == InitFilter /\ [][NextFilter]_vars

TypeOK ==
  /\ clipData.clip \in 0..session
  /\ isSaving \in BOOLEAN /\ showInput \in BOOLEAN /\ focused \in BOOLEAN
  /\ focused => showInput
  /\ pendingSaves \in 0..MaxPending
  /\ pendingCloses \in 0..MaxCloses /\ focusTimers \in 0..MaxFocusTimers
  /\ mounted \in BOOLEAN /\ isLoadingItems \in BOOLEAN
  /\ Len(calls) <= MaxFetches
  /\ \A n \in 1..Len(calls) :
        calls[n].stage \in {"issued", "answered", "refused", "fulfilled",
                            "rejected"}
  /\ events["clip-saved"] + events["clip-deleted"] \in 0..MaxEvents
  /\ \A k \in {"clip-saved", "clip-deleted"} : deliveries[k] \in 0..MaxFetches
  /\ clipDialogOpen => selectedItem # NullItem
  /\ isDeleting \in BOOLEAN
  /\ Len(deletes) <= MaxDeletes
  /\ deleteToast \in {"none", "Successfully deleted the clip",
                      "Failed to delete item"}
  /\ hasChanges \in BOOLEAN /\ settingsSaving \in BOOLEAN
  /\ settingsSaving <=> saveCall.phase # "idle"
  /\ isTesting <=> testCall # Undefined
  /\ testResult \in {"null", "success", "error"}
  /\ Len(timers) <= MaxTimers
  /\ \A i \in 1..Len(timers) : timers[i] \in {SuccessExpiry, ErrorExpiry}
  /\ testResult # "null" => timers # <<>>
  /\ isRecording \in BOOLEAN /\ captureTimer \in BOOLEAN
  /\ Len(keys) <= MaxKeys
  /\ hasLlmApiKey <=> HasLlmApiKeyEffect(llmApiKey)

\* ------------------------------------------------------------------ claims
\* a save is issued in this step, by the Save button or by Enter
SaveStep == ClickSave \/ EnterKey

\* the session is cancelled in this step, by the Cancel button or by an
\* Escape that the input forwards to the toolbar
CancelStep ==
  \/ ClickCancel
  \/ /\ ~(Truthy(clipData.suggested_category)
          /\ inputValue = clipData.suggested_category)
     /\ EscapeKey

\* a suggestion exists
HasSuggestion == clipData.suggested_category \notin {Undefined, <<>>}

\* the user's value is non-blank
NonBlank(s) == \E i \in 1..Len(s) : ~IsSpace(s[i])

\* the user's edited value: the text the latest edit of the open session
\* left in the input, and the empty text while the user has edited nothing
EditedValue == IF userEdit = Undefined THEN <<>> ELSE userEdit

\* C1: every submit_clip, issued by the Save button or by Enter, carries the
\* user's edited value, trimmed, if that is non-blank, else the current
\* suggestion if there is one, else "Other".
C1_SaveCategory ==
  [][SaveStep =>
       /\ lastCall'.cmd = "submit_clip"
       /\ lastCall'.userCategory =
            IF NonBlank(EditedValue) THEN trim(EditedValue)
            ELSE IF HasSuggestion THEN clipData.suggested_category
            ELSE Other]_vars

\* C2: a suggestion arriving for the open session after the user typed a
\* non-empty category leaves the user's value in place.
C2_UserValueKept ==
  [][\A sugg \in Suggestions :
       (userTyped /\ NonBlank(userCategory) /\ ClipDataEvent(session, sugg))
          => userCategory' = userCategory]_vars

\* C3: no save is triggered while there is no suggestion and the user has
\* typed nothing non-blank.
C3_NoSilentDefault ==
  [][SaveStep => (HasSuggestion \/ NonBlank(userCategory))]_vars

\* C4: no submit_clip is issued while an earlier one is still in flight.
C4_SingleSave ==
  [][SaveStep => (~isSaving /\ pendingSaves = 0)]_vars

\* C5: with the clip delivered and no suggestion having arrived, the user
\* can still save: the Save button is enabled or the text input is there
\* to take Enter.
C5_SaveWithoutSuggestion ==
  (/\ open /\ clipData.clip = session /\ session > 0
   /\ ~HasSuggestion /\ userCategory = <<>> /\ pendingSaves = 0)
     => (~SaveDisabled \/ showInput)

\* C6: in a session in which the user has edited nothing, a save that
\* follows an event of that session carrying suggestion s finds the input
\* pre-filled with s and submits category s with the clip of that event.
C6_SuggestionSaved ==
  [][(/\ SaveStep
      /\ userEdit = Undefined
      /\ lastEvent.clip = session
      /\ lastEvent.suggested_category \in Suggestions)
       => /\ inputValue = lastEvent.suggested_category
          /\ lastCall' = [cmd |-> "submit_clip",
                          userCategory |-> lastEvent.suggested_category,
                          clipJson |-> lastEvent.clip]]_vars

\* C7: cancelling invokes close_toolbar_window only: the step of the Cancel
\* button or of a forwarded Escape issues that command and no submit_clip,
\* and the step in which the close settles issues no command at all; neither
\* starts a save nor changes isSaving.
C7_CancelOnlyCloses ==
  /\ [][CancelStep =>
          /\ lastCall'.cmd = "close_toolbar_window"
          /\ pendingSaves' = pendingSaves
          /\ isSaving' = isSaving]_vars
  /\ [][(\E ok \in BOOLEAN : CloseSettled(ok)) =>
          /\ lastCall' = NoCall
          /\ pendingSaves' = pendingSaves
          /\ isSaving' = isSaving]_vars

\* C7 witness: the first session was cancelled before any suggestion had
\* arrived: its close has settled, the window is gone, no save is in flight
C7_Witness ==
  /\ cancelled /\ ~open
  /\ session = 1 /\ clipData.clip = 1
  /\ lastCall = NoCall
  /\ pendingCloses = 0
  /\ ~HasSuggestion
  /\ pendingSaves = 0 /\ ~isSaving

\* C8: Save is disabled exactly while a save is in flight or neither a
\* suggestion exists nor the user has typed a non-blank value.
C8_SaveEnabledIff ==
  SaveDisabled <=>
    (isSaving \/ ~(HasSuggestion \/ (userTyped /\ NonBlank(userCategory))))

\* C9: after the event of a new hotkey press reaches the open toolbar, the
\* clip is the new one and the category in effect is the new suggestion or,
\* without one, the fallback.
C9_SessionReset ==
  [][\A sugg \in Suggestions \cup {Undefined} :
       (open /\ session >= 1 /\ ClipDataEvent(session + 1, sugg))
          => /\ clipData'.clip = session + 1
             /\ SubmitCategory(View') = OrElse(sugg, Other)]_vars

\* C10: no save submits a category that a suggestion of a cancelled
\* session left behind.
C10_LateSuggestionDiscarded ==
  [][SaveStep => ~(lateCat /\ lastCall'.userCategory = userCategory)]_vars

\* C12: when a submit_clip call fails the failure is reported with an
\* alert, isSaving is false again, the window stays as it was, and the
\* session's clip data and category are what they were, so that the save
\* can be issued again.
C12_FailedSaveKeepsSession ==
  [][SubmitSettled(FALSE) =>
       /\ alerted'
       /\ ~isSaving'
       /\ open' = open
       /\ clipData' = clipData
       /\ userCategory' = userCategory]_vars

\* a save has just failed in an open session that has a clip, a suggestion
\* and a category typed by the user
C12_Witness ==
  /\ alerted /\ open /\ ~isSaving
  /\ pendingSaves = 0
  /\ HasSuggestion
  /\ userTyped /\ NonBlank(userCategory)

\* C17: whenever a save is issued while the category text input is shown
\* with a non-blank text, the category submitted is that text, trimmed.
C17_SavedEqualsDisplayed ==
  [][SaveStep /\ showInput /\ NonBlank(inputValue) =>
       lastCall'.userCategory = trim(inputValue)]_vars

\* the text in the category input is the AI suggestion
TextIsSuggestion ==
  Truthy(aiSuggestion(View)) /\ inputValue = aiSuggestion(View)

\* C27: Escape in the category input while its text equals the AI suggestion
\* only returns to the badge view, and close_toolbar_window is not invoked;
\* in every other case Escape in the input invokes close_toolbar_window and
\* so cancels the session; Enter without Shift issues a save.
C27_EscapeAndEnterInInput ==
  /\ [][(TextIsSuggestion /\ EscapeKey) =>
          /\ ~showInput'
          /\ lastCall' = NoCall
          /\ UNCHANGED <<open, cancelled, pendingSaves, pendingCloses>>]_vars
  /\ [][(~TextIsSuggestion /\ EscapeKey) =>
          /\ lastCall'.cmd = "close_toolbar_window"
          /\ pendingCloses' = pendingCloses + 1]_vars
  /\ [][(open /\ CloseSettled(TRUE)) => (~open' /\ cancelled')]_vars
  /\ [][EnterKey =>
          /\ lastCall'.cmd = "submit_clip"
          /\ pendingSaves' = pendingSaves + 1]_vars

\* C27 witness: the input was opened on a suggestion and had the focus, and
\* the toolbar is back in the badge view, still open, with no command
\* invoked and nothing typed
C27_Witness ==
  /\ open /\ session = 1
  /\ TextIsSuggestion
  /\ touched /\ focusTimers = 0 /\ ~showInput /\ ~userTyped
  /\ lastEvent.suggested_category = inputValue
  /\ lastCall = NoCall

\* ------------------------------------------------- claims: the main window
\* the record of a get_items call that has just been issued
IssuedCall == [stage |-> "issued", result |-> <<>>]

\* an event reaches the listeners App has registered
EventStep ==
  /\ mounted
  /\ \E kind \in {"clip-saved", "clip-deleted"}, again \in BOOLEAN :
        DeliverEvent(kind, again)

\* C11: App issues exactly one get_items call when it mounts, and exactly
\* one more for every clip-saved or clip-deleted event delivered to it, a
\* duplicate delivery included; the call takes no argument (a full fetch).
C11_FetchOnMountAndEvents ==
  [][(AppMount \/ EventStep) => calls' = Append(calls, IssuedCall)]_vars

\* the mount and two deliveries of one and the same clip-saved event have
\* each issued a fetch, every one while the earlier ones were in flight
C11_Witness ==
  /\ mounted
  /\ Len(calls) = 3
  /\ \A n \in 1..3 : calls[n].stage = "issued"
  /\ deliveries["clip-saved"] = 2

\* a get_items call is issued in this step: by the mount or by an event
RefreshStep == AppMount \/ EventStep

\* C16: a refresh of the item list leaves the view state of the grid as
\* it was: the search query, the selected category filters, and the detail
\* dialog with its selected item.
C16_RefreshKeepsViewState ==
  [][RefreshStep => UNCHANGED <<searchQuery, selectedCategories,
                                clipDialogOpen, selectedItem>>]_vars

\* every call issued has settled and every event has been delivered
Quiet ==
  /\ InFlight = {}
  /\ events["clip-saved"] = 0 /\ events["clip-deleted"] = 0

\* C18: once every event is handled and every get_items call has settled,
\* the items shown are the result of the call issued last (if that call
\* succeeded), whatever the order in which the responses arrived.
C18_LatestCallWins ==
  (/\ Quiet
   /\ Len(calls) > 0
   /\ calls[Len(calls)].stage = "fulfilled")
  => items = calls[Len(calls)].result

\* ----------------------------------------------------- claims: the delete
\* C24: handleDelete never has more than one delete_item call in flight; a
\* successful delete closes the detail dialog, clears the selected item and
\* issues a re-fetch of the list; a failed delete reports an error and
\* leaves the dialog and the selected item as they were; isDeleting is
\* false after either outcome.
C24_OneDeleteAtATime ==
  /\ [](Len(deletes) <= 1)
  /\ [][\A n \in 1..MaxDeletes :
          DeleteSettled(n, TRUE) =>
            /\ ~clipDialogOpen'
            /\ selectedItem' = NullItem
            /\ calls' = Append(calls, IssuedCall)]_vars
  /\ [][\A n \in 1..MaxDeletes :
          DeleteSettled(n, FALSE) =>
            /\ deleteToast' = "Failed to delete item"
            /\ UNCHANGED <<clipDialogOpen, selectedItem>>]_vars
  /\ [][\A n \in 1..MaxDeletes, ok \in BOOLEAN :
          DeleteSettled(n, ok) => ~isDeleting']_vars

\* ---------------------------------------------------- claims: the settings
\* a step of a running saveSettings call
SaveSettled ==
  \/ \E ok \in BOOLEAN : HotkeySettled(ok)
  \/ \E ok \in BOOLEAN : ApiKeySettled(ok)

\* C13: saveSettings registers the hotkey first and writes the API key only
\* after the registration has succeeded.  A failed registration raises the
\* error toast, writes no API key and leaves hasChanges as it was; isSaving
\* is false when the call has ended, whatever the outcome; and a save
\* clears hasChanges only in the step where its second call succeeds.
C13_HotkeyBeforeApiKey ==
  [][/\ ClickSaveSettings =>
          /\ saveCall'.phase = "hotkey"
          /\ saveCall'.hotkey = globalShortcut
          /\ UNCHANGED <<storedHotkey, storedApiKey, hasChanges>>
     /\ (saveCall.phase # "apikey" /\ saveCall'.phase = "apikey") =>
          /\ HotkeySettled(TRUE)
          /\ storedHotkey' = saveCall.hotkey
          /\ saveCall'.apiKey = saveCall.apiKey
     /\ HotkeySettled(FALSE) =>
          /\ toast' = "Failed to save settings"
          /\ saveCall'.phase = "idle"
          /\ UNCHANGED <<storedHotkey, storedApiKey, hasChanges>>
     /\ (mounted /\ storedApiKey' # storedApiKey) => ApiKeySettled(TRUE)
     /\ (SaveSettled /\ saveCall'.phase = "idle") => ~settingsSaving'
     /\ (SaveSettled /\ hasChanges /\ ~hasChanges') => ApiKeySettled(TRUE)
    ]_vars

\* a save has stopped at a rejected hotkey: the toast is up, the API key
\* typed by the user is not in the store, and Save is enabled again
C13_Witness ==
  /\ toast = "Failed to save settings"
  /\ saveCall.phase = "idle" /\ ~settingsSaving
  /\ hasChanges
  /\ ~ValidHotkey(globalShortcut)
  /\ llmApiKey = <<"k">> /\ storedApiKey = Undefined

\* C19: whenever hasChanges is false and no saveSettings call is in
\* flight, the globalShortcut and llmApiKey shown are the values last loaded
\* from or last successfully saved to the backend.
C19_CleanMeansSynced ==
  (~hasChanges /\ saveCall.phase = "idle")
  => (globalShortcut = synced.hotkey /\ llmApiKey = synced.apiKey)

\* C20: whenever testResult is "success", the globalShortcut shown is the
\* value that was passed to the successful test_global_hotkey call.
C20_SuccessIsForShownShortcut ==
  testResult = "success" => globalShortcut = tested

\* README.md:15: the hotkey the README tells the user to press
ReadmeHotkey == <<"C","t","r","l","+","S","h","i","f","t","+","S">>

\* part_003:146, 203: the hotkey of the empty-state hint
HintHotkey == <<"C","m","d","+","S","h","i","f","t","+","S">>

\* the names under which a binding carries the platform's main modifier
PrimaryModifiers ==
  { <<"C","o","m","m","a","n","d","O","r","C","o","n","t","r","o","l">>,
    <<"C","t","r","l">>, <<"C","m","d">> }

\* the modifiers of a binding, the main modifier under one name
ModifiersOf(h) ==
  LET parts == split(h, "+")
  IN  {IF parts[i] \in PrimaryModifiers THEN <<"P">> ELSE toLowerCase(parts[i])
         : i \in 1..(Len(parts) - 1)}

\* the key of a binding
KeyOf(h) == LET parts == split(h, "+") IN toLowerCase(parts[Len(parts)])

\* two bindings are the same key combination
SameCombination(a, b) ==
  ModifiersOf(a) = ModifiersOf(b) /\ KeyOf(a) = KeyOf(b)

\* C15: when no global_hotkey is stored, the shortcut that loadSettings
\* presents in the settings is the combination the README and the
\* empty-state hint tell the user to press (Ctrl/Cmd+Shift+S).
C15_DefaultIsDocumentedHotkey ==
  [][(LoadSettingsSettled(TRUE) /\ ~Truthy(storedHotkey)) =>
       /\ SameCombination(globalShortcut', ReadmeHotkey)
       /\ SameCombination(globalShortcut', HintHotkey)]_vars

\* ------------------------------------------------------ claims: the search
\* the searchable text of an item: plain text, summary, category and all
\* tags, joined by spaces and lower-cased
SearchableText(item) == toLowerCase(join(searchableFields(item), <<" ">>))

\* the item is among the items the grid displays
Displayed(item) ==
  inList(displayedItems(items, searchQuery, selectedCategories), item)

\* the claim applies: a non-blank query and no category filter
SearchOnly == NonBlank(searchQuery) /\ selectedCategories = <<>>

\* C14 as stated: with a non-blank query and no category filter an item is
\* displayed if and only if the trimmed, lower-cased query is a substring
\* of its searchable text, as written or with hyphens and underscores
\* replaced by spaces and white space collapsed.
C14_QueryInTextOrNormalizedText ==
  SearchOnly =>
    \A n \in 1..Len(items) :
      Displayed(items[n]) <=>
        \/ includes(SearchableText(items[n]), trim(toLowerCase(searchQuery)))
        \/ includes(normalizeSearch(SearchableText(items[n])),
                    trim(toLowerCase(searchQuery)))

\* C14 (amended): with a non-blank query and no category filter an item is
\* displayed if and only if the trimmed, lower-cased query is a substring
\* of its searchable text as written, or the query is a substring of the
\* text after hyphens and underscores are replaced by spaces and white
\* space is collapsed in both of them; in particular every item whose
\* plain text or one of whose tags contains the query is displayed.
C14_SearchFilter ==
  SearchOnly =>
    \A n \in 1..Len(items) :
      /\ Displayed(items[n]) <=>
           \/ includes(SearchableText(items[n]),
                       trim(toLowerCase(searchQuery)))
           \/ includes(normalizeSearch(SearchableText(items[n])),
                       normalizeSearch(trim(toLowerCase(searchQuery))))
      /\ ( \/ includes(toLowerCase(OrElse(items[n].plain, <<>>)),
                       trim(toLowerCase(searchQuery)))
           \/ \E t \in 1..Len(items[n].tags) :
                 includes(toLowerCase(items[n].tags[t]),
                          trim(toLowerCase(searchQuery))) )
         => Displayed(items[n])

\* the query "code-snippet" displays an item of category code_snippet,
\* whose text contains the query only after both are normalised, and hides
\* the other item of the list
C14_Witness ==
  /\ SearchOnly
  /\ searchQuery = <<"c","o","d","e","-","s","n","i","p","p","e","t">>
  /\ \E n \in 1..Len(items) :
        /\ Displayed(items[n])
        /\ ~includes(SearchableText(items[n]), searchQuery)
  /\ \E n \in 1..Len(items) : ~Displayed(items[n])

\* ----------------------------------------------------- claims: the filter
\* a is b with some elements left out, the others in their order
RECURSIVE IsSubsequence(_, _)
IsSubsequence(a, b) ==
  IF a = <<>> THEN TRUE
  ELSE IF b = <<>> THEN FALSE
  ELSE IF Head(a) = Head(b) THEN IsSubsequence(Tail(a), Tail(b))
  ELSE IsSubsequence(a, Tail(b))

\* the elements of a list
AsSet(l) == {l[i] : i \in 1..Len(l)}

\* the item passes the search filter: the query is blank or matches
SearchMatches(item) ==
  ~NonBlank(searchQuery) \/ matchesSearch(item, searchQuery)

\* C25: displayedItems is an order-preserving sub-sequence of items; with a
\* blank query and no selected category it is items; with categories
\* selected it holds exactly the search-matching items whose category is,
\* letter for letter, one of the selected strings, so no item without a
\* category; toggling a category twice restores the selected set, which
\* never holds a string twice.
C25_FilterBySearchAndCategory ==
  /\ [](LET shown == displayedItems(items, searchQuery, selectedCategories)
        IN  /\ IsSubsequence(shown, items)
            /\ (~NonBlank(searchQuery) /\ selectedCategories = <<>>)
                 => shown = items
            /\ Len(selectedCategories) > 0 =>
                 \A n \in 1..Len(items) :
                   inList(shown, items[n]) <=>
                     /\ SearchMatches(items[n])
                     /\ items[n].category # Undefined
                     /\ items[n].category \in AsSet(selectedCategories)
            /\ Cardinality(AsSet(selectedCategories))
                 = Len(selectedCategories))
  /\ [][\A c \in FilterButtons :
          ToggleCategory(c) =>
            AsSet(toggleCategory(selectedCategories', c))
              = AsSet(selectedCategories)]_vars

\* C25 witness: with two categories selected, "url" among them, the item of
\* category url is displayed, the item of category Url and the item without
\* a category are not
C25_Witness ==
  /\ Len(selectedCategories) = 2
  /\ inList(selectedCategories, s_url)
  /\ \A k \in 1..3 : inList(items, FilterCatalogue[k])
  /\ Displayed(FilterCatalogue[1])
  /\ ~Displayed(FilterCatalogue[2])
  /\ ~Displayed(FilterCatalogue[3])

\* ----------------------------------------- claims: test results and capture
\* the timer started together with the displayed test result: the youngest
\* pending timer, with the delay of that outcome
OwnTimerFires ==
  /\ timers # <<>>
  /\ timers[Len(timers)] =
       (IF testResult = "success" THEN SuccessExpiry ELSE ErrorExpiry)
  /\ TimerFires(Len(timers))

\* C21: a displayed hotkey test result is cleared only by its own expiry
\* timer (3000 ms after a success, 5000 ms after an error), by starting a
\* new test, by editing the shortcut text or by starting a capture; the
\* timer of an earlier test never clears the result of a later test.
C21_ClearedOnlyByOwnTimer ==
  [][(testResult # "null" /\ testResult' = "null") =>
        \/ OwnTimerFires
        \/ ClickTest
        \/ \E v \in ShortcutInputs : ShortcutChange(v)
        \/ StartCapture]_vars

\* the modifier tokens formatHotkey writes
ModifierTokens == {s_CommandOrControl, s_Shift, s_Alt}

\* the shortcut has a modifier token and a key that is no modifier token
FullShortcut(h) ==
  LET parts == split(h, "+")
  IN  /\ \E i \in 1..Len(parts) : parts[i] \in ModifierTokens
      /\ \E i \in 1..Len(parts) :
            parts[i] # <<>> /\ parts[i] \notin ModifierTokens

\* C22: a capture is finished automatically only when the recorded keys
\* hold a modifier and a regular key, so the shortcut the auto-finish
\* stores consists of at least one modifier token and at least one
\* non-modifier key.
C22_AutoFinishStoresFullShortcut ==
  [][AutoFinishFires => FullShortcut(globalShortcut')]_vars

\* a step of finishCapture, by the Finish button or by the timer
FinishStep == FinishCapture \/ AutoFinishFires

\* C23: recording never outlives the settings dialog: closing the dialog
\* ends the recording and leaves no auto-finish timer behind that could
\* change globalShortcut or hasChanges later; while recording, text typed
\* into the hotkey field does not change globalShortcut.
C23_RecordingEndsWithDialog ==
  /\ [](isRecording => settingsOpen)
  /\ [](captureTimer => (settingsOpen /\ isRecording))
  /\ [][CloseSettings => (~isRecording' /\ ~captureTimer')]_vars
  /\ [][(~settingsOpen /\ AutoFinishFires)
          => UNCHANGED <<globalShortcut, hasChanges>>]_vars
  /\ [][(isRecording /\ globalShortcut' # globalShortcut)
          => (FinishStep \/ \E ok \in BOOLEAN : LoadSettingsSettled(ok))]_vars

\* C23 witness: the dialog was closed while keys with a pending auto-finish
\* timer were recorded, and the shortcut is still the loaded one
C23_Witness ==
  /\ ~settingsOpen /\ ~isRecording /\ ~captureTimer
  /\ hasModifier(keys) /\ hasRegularKey(keys)
  /\ globalShortcut = DefaultShortcut /\ ~hasChanges

\* the filter button that stands for a badge: the button of the same name,
\* and the button "other" for the badge "Other"
FilterOfBadge(badge) == IF badge = Other THEN s_other ELSE badge

\* C26: every item is reachable through the category filter that matches
\* its badge: with that filter alone selected and no search, the item is
\* displayed; an item whose badge reads "Other" is displayed under the
\* filter "other".
C26_BadgeFilterShowsItem ==
  \A n \in 1..Len(items) :
    (/\ ~NonBlank(searchQuery)
     /\ selectedCategories = <<FilterOfBadge(Badge(items[n]))>>)
       => Displayed(items[n])

\* the kind of element the grid renders for the clip of an item
RenderedAs(item) == renderClipContent(clipOf(item), item.category)

\* C28: renderClipContent dispatches on the populated variant: a clip with a
\* Text variant, whatever its string, is rendered as text (code block, link
\* or plain text), a clip with an Image variant as an image, and "Unknown
\* Clip" only when neither variant is there.
C28_RenderByVariant ==
  \A n \in 1..Len(items) :
    LET clip == clipOf(items[n])
    IN  /\ clip.Text # Undefined
           => RenderedAs(items[n]) \in {"CodeBlock", "link", "text"}
        /\ clip.Image # Undefined => RenderedAs(items[n]) = "image"
        /\ RenderedAs(items[n]) = "Unknown Clip"
           => (clip.Text = Undefined /\ clip.Image = Undefined)

====
